---- MODULE Spec2Model ----
(***************************************************************************)
(* A model of spicelib's SPICE netlist editor                              *)
(* (src/spicelib/editor/spice_editor.py, src/spicelib/editor/base_editor.py). *)
(*                                                                         *)
(* Text.  A Python str is a sequence of tokens.  Two tokens that follow    *)
(* each other are one blank apart, but for the line terminator NL and the  *)
(* sign "=", which have no blank on either side; SP is a run of blanks at  *)
(* the start of a line or before NL.  A token is a sequence of segments:   *)
(* the token                                                               *)
(* <<"s", "X1">> is the word s_X1, so that joining names with '_' is       *)
(* sequence concatenation.  The tokens are chosen so that every span a     *)
(* pattern of REPLACE_REGXES matches ends on a token boundary.             *)
(*                                                                         *)
(* Tree.  An entry of SpiceCircuit.netlist is a text line or a nested      *)
(* SpiceCircuit: [ckt, text, netlist].                                     *)
(***************************************************************************)
EXTENDS Integers, Sequences, FiniteSets, TLC

\* file: the lines of the netlist file the editor was constructed on
\* netlist: SpiceEditor.netlist, the tree
\* modified_subcircuits: the clone registry, in insertion order: [path, sub]
\* last: the last call made, its arguments, the exception it raised ("none"
\*       when it returned) and what it returned or wrote
\* nops: the number of editing calls made
VARIABLES file, netlist, modified_subcircuits, last, nops

vars == <<file, netlist, modified_subcircuits, last, nops>>

----------------------------------------------------------------------------
(* Bounds of the model *)

\* longest input file (in lines) of the parsing specification
MaxLines == 5

\* number of editing calls in one behaviour of the editing specifications
MaxOps == 3

----------------------------------------------------------------------------
(* Tokens and characters *)

T(s) == <<s>>

\* END_LINE_TERM
NL == <<"\n">>

\* a run of blanks (' ' or '\t') at the start of a line
SP == <<" ">>

\* The value Python's None is modelled by.
None == <<"None">>

\* str.upper() of a segment
Upper(seg) ==
  CASE seg = ".subckt" -> ".SUBCKT"
    [] seg = ".ends" -> ".ENDS"
    [] seg = ".end" -> ".END"
    [] seg = ".endmachine" -> ".ENDMACHINE"
    [] seg = ".machine" -> ".MACHINE"
    [] seg = ".tran" -> ".TRAN"
    [] seg = ".ac" -> ".AC"
    [] seg = ".op" -> ".OP"
    [] seg = ".param" -> ".PARAM"
    [] seg = ".backanno" -> ".BACKANNO"
    [] seg = ".lib" -> ".LIB"
    [] seg = ".inc" -> ".INC"
    [] seg = "r1" -> "R1"
    [] seg = "x1" -> "X1"
    [] seg = "a" -> "A"
    [] seg = "b" -> "B"
    [] seg = "c" -> "C"
    [] seg = "s" -> "S"
    [] seg = "t" -> "T"
    [] seg = "1k" -> "1K"
    [] seg = "2k" -> "2K"
    [] seg = "5k" -> "5K"
    [] seg = "p" -> "P"
    [] seg = "q" -> "Q"
    [] OTHER -> seg

UpperTok(tok) == [i \in 1..Len(tok) |-> Upper(tok[i])]

\* s[0] of a segment
FirstChar(seg) ==
  CASE seg \in {"R1", "R2", "R9"} -> "R"
    [] seg \in {"X1", "X2", "X3"} -> "X"
    [] seg = "r1" -> "r"
    [] seg = "x1" -> "x"
    [] seg = "N1" -> "N"
    [] seg = "n1" -> "n"
    [] seg = "{a+b}" -> "{"
    [] seg \in {".subckt", ".SUBCKT", ".ends", ".ENDS", ".end", ".END", ".endmachine",
                ".ENDMACHINE", ".machine", ".MACHINE", ".tran", ".TRAN", ".ac", ".AC", ".op", ".OP", ".param",
                ".PARAM", ".backanno", ".BACKANNO", ".lib", ".LIB", ".inc", ".INC"} -> "."
    [] seg \in {"*", "*****", "****"} -> "*"
    [] seg = "+" -> "+"
    [] seg = "\n" -> "\n"
    [] seg = " " -> " "
    [] seg \in {"1k", "1K"} -> "1"
    [] seg \in {"2k", "2K"} -> "2"
    [] seg \in {"5k", "5K"} -> "5"
    [] OTHER -> seg

\* str.upper() of one character
UpperChar(ch) ==
  CASE ch = "r" -> "R"
    [] ch = "x" -> "X"
    [] ch = "a" -> "A"
    [] ch = "b" -> "B"
    [] ch = "c" -> "C"
    [] ch = "s" -> "S"
    [] ch = "t" -> "T"
    [] ch = "p" -> "P"
    [] ch = "q" -> "Q"
    [] ch = "n" -> "N"
    [] OTHER -> ch

\* the keys of REPLACE_REGXES
REPLACE_REGXES_keys ==
  {"A", "B", "C", "D", "E", "F", "G", "H", "I", "J", "K", "L", "M", "O", "Q", "R",
   "S", "T", "U", "V", "W", "X", "Z", "@"}

\* cmd[:4] == '.END' for an upper-cased directive token
Prefix4IsEND(tok) == tok[1] \in {".END", ".ENDS", ".ENDMACHINE"}

----------------------------------------------------------------------------
(* The tree *)

Line(text) == [ckt |-> FALSE, text |-> text, netlist |-> <<>>]

SpiceCircuit(nl) == [ckt |-> TRUE, text |-> <<>>, netlist |-> nl]

\* f(v) with v computed once: a local variable of the code that is assigned
\* once and read several times
With(v, f(_)) == CHOOSE out \in {f(x) : x \in {v}} : TRUE

\* index of the first token of text that is not a blank, 0 when there is none
FirstNonBlank(text) ==
  IF \E i \in 1..Len(text) : text[i] # SP
  THEN CHOOSE i \in 1..Len(text) : text[i] # SP /\ \A j \in 1..(i - 1) : text[j] = SP
  ELSE 0

\* get_line_command on a str: [raised, cmd]
get_line_command(text) ==
  LET i == FirstNonBlank(text) IN
  IF i = 0 THEN [raised |-> "none", cmd |-> None]
  ELSE LET ch == UpperChar(FirstChar(text[i][1])) IN
       IF ch \in REPLACE_REGXES_keys THEN [raised |-> "none", cmd |-> T(ch)]
       ELSE IF ch = "+" THEN [raised |-> "none", cmd |-> T("+")]
       ELSE IF ch \in {"#", ";", "*", "\n", "\r"} THEN [raised |-> "none", cmd |-> T("*")]
       ELSE IF ch = "." THEN [raised |-> "none", cmd |-> UpperTok(text[i])]
       ELSE [raised |-> "TypeError", cmd |-> None]

\* get_line_command on an entry of a netlist
get_entry_command(e) ==
  IF e.ckt THEN [raised |-> "none", cmd |-> T(".SUBCKT")] ELSE get_line_command(e.text)

RECURSIVE add_lines_dropping(_, _, _)
\* SpiceCircuit._add_lines_dropping: consumes lines[pos..] into the netlist acc.
\* [netlist, pos, finished, raised]; pos is the next unread line.
add_lines_dropping(lines, pos, acc) ==
  IF pos > Len(lines)
  THEN [netlist |-> acc, pos |-> pos, finished |-> FALSE, raised |-> "none"]
  ELSE
    LET line == lines[pos]
        c == get_line_command(line)
    IN
    IF c.raised # "none"
    THEN [netlist |-> acc, pos |-> pos + 1, finished |-> FALSE, raised |-> c.raised]
    ELSE IF c.cmd = T(".SUBCKT")
    THEN With(add_lines_dropping(lines, pos + 1, <<Line(line)>>), LAMBDA r :
         IF r.raised # "none" THEN [r EXCEPT !.netlist = acc]
         ELSE IF r.finished THEN add_lines_dropping(lines, r.pos, Append(acc, SpiceCircuit(r.netlist)))
         ELSE [netlist |-> acc, pos |-> r.pos, finished |-> FALSE, raised |-> "none"])
    ELSE IF c.cmd = T("+")
    THEN IF Len(acc) = 0
         THEN [netlist |-> acc, pos |-> pos + 1, finished |-> FALSE, raised |-> "AssertionError"]
         ELSE IF acc[Len(acc)].ckt
         THEN [netlist |-> acc, pos |-> pos + 1, finished |-> FALSE, raised |-> "TypeError"]
         ELSE add_lines_dropping(lines, pos + 1, [acc EXCEPT ![Len(acc)].text = @ \o line])
    ELSE IF c.cmd = None
    THEN [netlist |-> Append(acc, Line(line)), pos |-> pos + 1, finished |-> FALSE,
          raised |-> "TypeError"]
    ELSE IF Prefix4IsEND(c.cmd)
    THEN [netlist |-> acc, pos |-> pos + 1, finished |-> TRUE,
          raised |-> "none"]
    ELSE add_lines_dropping(lines, pos + 1, Append(acc, Line(line)))

RECURSIVE add_lines(_, _, _)
\* SpiceCircuit._add_lines: consumes lines[pos..] into the netlist acc.
\* [netlist, pos, finished, raised]; pos is the next unread line.
add_lines(lines, pos, acc) ==
  IF pos > Len(lines)
  THEN [netlist |-> acc, pos |-> pos, finished |-> FALSE, raised |-> "none"]
  ELSE
    LET line == lines[pos]
        c == get_line_command(line)
    IN
    IF c.raised # "none"
    THEN [netlist |-> acc, pos |-> pos + 1, finished |-> FALSE, raised |-> c.raised]
    ELSE IF c.cmd = T(".SUBCKT")
    THEN With(add_lines(lines, pos + 1, <<Line(line)>>), LAMBDA r :
         IF r.raised # "none" THEN [r EXCEPT !.netlist = acc]
         ELSE IF r.finished THEN add_lines(lines, r.pos, Append(acc, SpiceCircuit(r.netlist)))
         ELSE [netlist |-> acc, pos |-> r.pos, finished |-> FALSE, raised |-> "none"])
    ELSE IF c.cmd = T("+")
    THEN IF Len(acc) = 0
         THEN [netlist |-> acc, pos |-> pos + 1, finished |-> FALSE, raised |-> "AssertionError"]
         ELSE IF acc[Len(acc)].ckt
         THEN [netlist |-> acc, pos |-> pos + 1, finished |-> FALSE, raised |-> "TypeError"]
         ELSE add_lines(lines, pos + 1, [acc EXCEPT ![Len(acc)].text = @ \o line])
    ELSE IF c.cmd = None
    THEN [netlist |-> Append(acc, Line(line)), pos |-> pos + 1, finished |-> FALSE,
          raised |-> "TypeError"]
    ELSE IF Prefix4IsEND(c.cmd)
    THEN [netlist |-> Append(acc, Line(line)), pos |-> pos + 1, finished |-> TRUE,
          raised |-> "none"]
    ELSE add_lines(lines, pos + 1, Append(acc, Line(line)))

RECURSIVE write_lines(_)
\* SpiceCircuit.write_lines: the text written for a netlist, depth first
write_lines(nl) ==
  IF nl = <<>> THEN <<>>
  ELSE (IF Head(nl).ckt THEN write_lines(Head(nl).netlist) ELSE Head(nl).text)
       \o write_lines(Tail(nl))

RECURSIVE write_registry(_)
\* for sub in self.modified_subcircuits.values(): sub.write_lines(f)
write_registry(ms) ==
  IF ms = <<>> THEN <<>> ELSE write_lines(Head(ms).sub.netlist) \o write_registry(Tail(ms))

\* line.upper().startswith(".END")
StartsWithEND(text) == text # <<>> /\ Prefix4IsEND(UpperTok(text[1]))

RECURSIVE save_text(_, _)
\* SpiceEditor.save_netlist: the text written to the file
save_text(nl, ms) ==
  IF nl = <<>> THEN <<>>
  ELSE LET e == Head(nl) IN
       (IF e.ckt THEN write_lines(e.netlist)
        ELSE IF StartsWithEND(e.text) THEN write_registry(ms) \o e.text
        ELSE e.text)
       \o save_text(Tail(nl), ms)

\* SpiceEditor.reset_netlist(create_blank=False) on an existing netlist file
reset_netlist(f) ==
  With(add_lines(f, 1, <<>>), LAMBDA r :
  [netlist |-> r.netlist,
   raised |-> IF r.raised # "none" THEN r.raised
              ELSE IF r.finished THEN "none" ELSE "SyntaxError"])

----------------------------------------------------------------------------
(* The element pattern table, on tokens *)

\* segments made of word characters only (\w+)
WordSegs ==
  {"R1", "R2", "R9", "r1", "X1", "X2", "X3", "x1", "a", "b", "c", "s", "t", "u",
   "1k", "2k", "5k", "1K", "2K", "5K", "A", "B", "C", "S", "T", "U"}

\* \w+ matches the whole token
IsWord(tok) == tok # <<>> /\ \A i \in 1..Len(tok) : tok[i] \in WordSegs

\* \s matches the token
IsWs(tok) == tok \in {SP, NL}

\* [0-9\.E+-]+(Meg|[kmuµnpf])?R?)\d* matches the whole token
IsNumber(tok) == tok \in {T("1k"), T("2k"), T("5k"), T("+")}

RECURSIVE NonWs(_, _)
\* the indices, from i on, of the tokens of text that are not white space
NonWs(text, i) ==
  IF i > Len(text) THEN <<>>
  ELSE IF IsWs(text[i]) THEN NonWs(text, i + 1)
  ELSE <<i>> \o NonWs(text, i + 1)

\* .*$ matches text from token i on: no line terminator but a last one
RestOfLine(text, i) == \A j \in i..(Len(text) - 1) : text[j] # NL

\* \s*$ matches text from token i on
OnlyWs(text, i) == \A j \in i..Len(text) : IsWs(text[j])

\* a designator of kind ch: ^ch§?\w+ under re.IGNORECASE
IsDesignator(ch, tok) == IsWord(tok) /\ UpperChar(FirstChar(tok[1])) = ch

\* REPLACE_REGXES['R'].match(text): the index of the value token, 0 for no match.
\* The optional model group is tried first.
match_R(text) ==
  LET ix == NonWs(text, 1) IN
  IF Len(ix) < 4 \/ ix[1] # 1 \/ ~IsDesignator("R", text[1]) THEN 0
  ELSE IF Len(ix) >= 5 /\ IsWord(text[ix[4]]) /\ IsNumber(text[ix[5]])
          /\ RestOfLine(text, ix[5] + 1)
  THEN ix[5]
  ELSE IF IsNumber(text[ix[4]]) /\ RestOfLine(text, ix[4] + 1) THEN ix[4]
  ELSE 0

\* REPLACE_REGXES['X'].match(text) for a line without params: the value is the
\* last word, the nodes (one at least) are all that lies between
match_X(text) ==
  LET ix == NonWs(text, 1) IN
  IF Len(ix) < 3 \/ ix[1] # 1 \/ ~IsDesignator("X", text[1]) THEN 0
  ELSE IF IsWord(text[ix[Len(ix)]]) THEN ix[Len(ix)]
  ELSE 0

\* component_replace_regexs.get(prefix, None) is not None
has_regex(prefix) == prefix \in REPLACE_REGXES_keys

\* component_replace_regexs[prefix].match(text), for the kinds R and X
regex_match(prefix, text) ==
  IF prefix = "R" THEN match_R(text)
  ELSE IF prefix = "X" THEN match_X(text)
  ELSE 0

\* a splice that drops what follows the value: line[:start] + value
splice_truncating(text, v, value) == SubSeq(text, 1, v - 1) \o value

\* line[:start] + value + line[end:] around the token at index v
splice(text, v, value) == SubSeq(text, 1, v - 1) \o value \o SubSeq(text, v + 1, Len(text))

\* the tokens written without a blank on either side
Glued(tok) == tok \in {NL, T("=")}

RECURSIVE TokenEnd(_, _)
\* the last index of the run of non-blank characters that starts at token i
TokenEnd(text, i) ==
  IF i < Len(text) /\ text[i + 1] # SP /\ (Glued(text[i]) \/ Glued(text[i + 1]))
  THEN TokenEnd(text, i + 1)
  ELSE i

\* _first_token_upped
first_token_upped(text) ==
  LET i == FirstNonBlank(text) IN
  IF i = 0 THEN <<>>
  ELSE LET j == TokenEnd(text, i) IN [k \in 1..(j - i + 1) |-> UpperTok(text[i + k - 1])]

\* a search that takes the first line whose first token starts with substr
\* (line_upcase.startswith(substr_upper))
get_line_starting_with_prefix(nl, substr) ==
  LET hit(i) == /\ ~nl[i].ckt
                /\ first_token_upped(nl[i].text) # <<>>
                /\ Len(first_token_upped(nl[i].text)[1]) >= Len(substr)
                /\ SubSeq(first_token_upped(nl[i].text)[1], 1, Len(substr)) = UpperTok(substr)
  IN
  IF \E i \in 1..Len(nl) : hit(i)
  THEN CHOOSE i \in 1..Len(nl) : hit(i) /\ \A j \in 1..(i - 1) : ~hit(j)
  ELSE 0

\* SpiceCircuit._get_line_starting_with: the index of the line, 0 when it
\* raises ComponentNotFoundError
get_line_starting_with(nl, substr) ==
  LET hit(i) == ~nl[i].ckt /\ first_token_upped(nl[i].text) = <<UpperTok(substr)>> IN
  IF \E i \in 1..Len(nl) : hit(i)
  THEN CHOOSE i \in 1..Len(nl) : hit(i) /\ \A j \in 1..(i - 1) : ~hit(j)
  ELSE 0

\* SpiceCircuit._set_model_and_value: [netlist, raised]
set_model_and_value(nl, component, value) ==
  LET prefix == FirstChar(component[1]) IN
  IF ~has_regex(prefix) THEN [netlist |-> nl, raised |-> "none"]
  ELSE
    With(get_line_starting_with(nl, component), LAMBDA line_no :
    IF line_no = 0 THEN [netlist |-> nl, raised |-> "ComponentNotFoundError"]
    ELSE
      With(regex_match(prefix, nl[line_no].text), LAMBDA v :
      IF v = 0 THEN [netlist |-> nl, raised |-> "UnrecognizedSyntaxError"]
      ELSE [netlist |-> [nl EXCEPT ![line_no].text = splice(@, v, value)],
            raised |-> "none"]))

----------------------------------------------------------------------------
(* Sub-block resolution and copy-on-write editing *)

\* subckt_regex.search(text), ^.SUBCKT\s+(?P<name>\w+): the index of the name
\* token, 0 for no match
subckt_regex(text) ==
  LET ix == NonWs(text, 1) IN
  IF Len(ix) >= 2 /\ ix[1] = 1 /\ UpperTok(text[1]) = T(".SUBCKT") /\ IsWord(text[ix[2]])
  THEN ix[2]
  ELSE 0

\* re.compile(SUBCKT_CLAUSE_FIND + subckt_name, re.IGNORECASE).match(text): the
\* pattern ends with the name, so a declared name that starts with subckt_name
\* matches too (the start is taken segment by segment)
reg_subckt(subckt_name, text) ==
  LET ix == NonWs(text, 1) IN
  /\ Len(ix) >= 2
  /\ ix[1] = 1
  /\ UpperTok(text[1]) = T(".SUBCKT")
  /\ Len(subckt_name) <= Len(text[ix[2]])
  /\ \A i \in 1..Len(subckt_name) : Upper(subckt_name[i]) = Upper(text[ix[2]][i])

RECURSIVE scan_lib(_, _, _)
\* the loop of find_subckt_in_lib over the lines of an opened library
scan_lib(lib, pos, subckt_name) ==
  IF pos > Len(lib) THEN [raised |-> "none", found |-> FALSE, sub |-> <<>>]
  ELSE IF reg_subckt(subckt_name, lib[pos])
  THEN With(add_lines(lib, pos + 1, <<Line(lib[pos])>>), LAMBDA r :
       IF r.raised # "none" THEN [raised |-> r.raised, found |-> FALSE, sub |-> <<>>]
       ELSE IF r.finished THEN [raised |-> "none", found |-> TRUE, sub |-> r.netlist]
       ELSE scan_lib(lib, r.pos, subckt_name))
  ELSE scan_lib(lib, pos + 1, subckt_name)

\* SpiceEditor.find_subckt_in_lib(library, subckt_name).  library is the
\* netlist file (is_file) or Path(''), the circuit_file of a SpiceCircuit,
\* which is a directory and cannot be opened.
find_subckt_in_lib(is_file, lib, subckt_name) ==
  IF ~is_file THEN [raised |-> "OSError", found |-> FALSE, sub |-> <<>>]
  ELSE scan_lib(lib, 1, subckt_name)

\* lib_inc_regex.match(text), ^\.(LIB|INC)\s+(.*)$: the tokens of the library
\* name, <<>> for no match
lib_inc_regex(text) ==
  IF Len(text) >= 3 /\ UpperTok(text[1]) \in {T(".LIB"), T(".INC")} /\ text[Len(text)] = NL
  THEN SubSeq(text, 2, Len(text) - 1)
  ELSE <<>>

\* a library that defines the sub-block s, with a resistor of value v
LibS(v) ==
  << <<T(".subckt"), T("s"), T("a"), T("b"), NL>>,
     <<T("R1"), T("a"), T("b"), v, NL>>,
     <<T(".ends"), T("s"), NL>> >>

\* a library that defines the sub-block t only
LibT ==
  << <<T(".subckt"), T("t"), T("a"), T("b"), NL>>,
     <<T("R1"), T("a"), T("b"), T("1k"), NL>>,
     <<T(".ends"), T("t"), NL>> >>

\* the search-path list, in list order
LibSearchPaths == <<"d1", "d2">>

\* the files on disk: the text of the file lib of the directory dir, <<>>
\* when there is none.  "." is the working directory and "~" the directory
\* Documents\LTspiceXVII\lib\sub of the user.
Disk(dir, lib) ==
  CASE dir = "d1" /\ lib = <<T("l1")>> -> LibS(T("1k"))
    [] dir = "d2" /\ lib = <<T("l1")>> -> LibS(T("2k"))
    [] dir = "d1" /\ lib = <<T("l2")>> -> LibT
    [] dir = "d2" /\ lib = <<T("l3")>> -> LibS(T("5k"))
    [] dir = "." /\ lib = <<T("l4")>> -> LibT
    [] dir = "~" /\ lib = <<T("l4")>> -> LibS(T("2k"))
    [] OTHER -> <<>>

\* os.path.exists(os.path.join(dir, lib))
path_exists(dir, lib) == Disk(dir, lib) # <<>>

RECURSIVE search_paths(_, _, _, _)
\* the loop of get_subcircuit over LibSearchPaths for one library, from the
\* path j on: sub_circuit afterwards, which was cur before
search_paths(lib, j, cur, subckt_name) ==
  IF j > Len(LibSearchPaths) THEN cur
  ELSE IF path_exists(LibSearchPaths[j], lib)
  THEN With(find_subckt_in_lib(TRUE, Disk(LibSearchPaths[j], lib), subckt_name), LAMBDA r :
       IF r.raised # "none" \/ r.found THEN r
       ELSE search_paths(lib, j + 1, r, subckt_name))
  ELSE search_paths(lib, j + 1, cur, subckt_name)

RECURSIVE search_libraries(_, _, _, _)
\* the loop of get_subcircuit over the entries of the netlist, from the entry
\* i on: sub_circuit afterwards, which was cur before
search_libraries(nl, i, cur, subckt_name) ==
  IF i > Len(nl) THEN cur
  ELSE IF nl[i].ckt THEN [raised |-> "TypeError", found |-> FALSE, sub |-> <<>>]
  ELSE
    With(lib_inc_regex(nl[i].text), LAMBDA lib :
    IF lib = <<>> THEN search_libraries(nl, i + 1, cur, subckt_name)
    ELSE
      LET at_home == path_exists(".", lib) /\ path_exists("~", lib) IN
      With(IF at_home THEN find_subckt_in_lib(TRUE, Disk("~", lib), subckt_name) ELSE cur,
           LAMBDA c :
      IF c.raised # "none" \/ (at_home /\ c.found) THEN c
      ELSE
        With(search_paths(lib, 1, c, subckt_name), LAMBDA r :
        IF r.raised # "none" THEN r
        ELSE search_libraries(nl, i + 1, r, subckt_name))))

RECURSIVE get_subcircuit(_, _, _, _)
\* SpiceCircuit.get_subcircuit on the netlist nl of an object whose
\* circuit_file is the netlist file (is_file) or Path('').  [raised, sub]
get_subcircuit(nl, is_file, lib, instance_name) ==
  With(get_line_starting_with(nl, Head(instance_name)), LAMBDA line_no :
  IF line_no = 0 THEN [raised |-> "ComponentNotFoundError", sub |-> <<>>]
  ELSE
    With(match_X(nl[line_no].text), LAMBDA v :
    IF v = 0 THEN [raised |-> "UnrecognizedSyntaxError", sub |-> <<>>]
    ELSE
      With(find_subckt_in_lib(is_file, lib, nl[line_no].text[v]), LAMBDA r :
      IF r.raised # "none" THEN [raised |-> r.raised, sub |-> <<>>]
      ELSE
        With(IF r.found THEN r ELSE search_libraries(nl, 1, r, nl[line_no].text[v]),
             LAMBDA sub_circuit :
        IF sub_circuit.raised # "none" THEN [raised |-> sub_circuit.raised, sub |-> <<>>]
        ELSE IF ~sub_circuit.found
        THEN [raised |-> "ComponentNotFoundError", sub |-> <<>>]
        ELSE IF Len(instance_name) > 1
        THEN get_subcircuit(sub_circuit.sub, FALSE, <<>>, Tail(instance_name))
        ELSE [raised |-> "none", sub |-> sub_circuit.sub]))))

\* the first index from `from` on where p holds, 0 when there is none
FirstIndex(n, from, p(_)) ==
  IF \E i \in from..n : p(i)
  THEN CHOOSE i \in from..n : p(i) /\ \A j \in from..(i - 1) : ~p(j)
  ELSE 0

\* SpiceCircuit.name: [raised, name]
name(nl) ==
  LET stop(i) == nl[i].ckt \/ subckt_regex(nl[i].text) # 0 IN
  With(FirstIndex(Len(nl), 1, stop), LAMBDA i :
  IF i = 0 THEN [raised |-> "RuntimeError", name |-> <<>>]
  ELSE IF nl[i].ckt THEN [raised |-> "TypeError", name |-> <<>>]
  ELSE [raised |-> "none", name |-> nl[i].text[subckt_regex(nl[i].text)]])

\* SpiceCircuit.setname on a non-empty netlist: [raised, netlist]
setname(nl, new_name) ==
  LET stop(i) == nl[i].ckt \/ subckt_regex(nl[i].text) # 0 IN
  With(FirstIndex(Len(nl), 1, stop), LAMBDA i :
  IF i = 0 THEN [raised |-> "MissingExpectedClauseError", netlist |-> nl]
  ELSE IF nl[i].ckt THEN [raised |-> "TypeError", netlist |-> nl]
  ELSE
    With([nl EXCEPT ![i].text = splice(@, subckt_regex(@), <<new_name>>)], LAMBDA nl1 :
    LET halt(j) == LET c == get_entry_command(nl1[j]) IN
                   c.raised # "none" \/ c.cmd = T(".ENDS")
    IN
    With(FirstIndex(Len(nl1), i, halt), LAMBDA j :
    IF j = 0 THEN [raised |-> "MissingExpectedClauseError", netlist |-> nl1]
    ELSE IF get_entry_command(nl1[j]).raised # "none"
    THEN [raised |-> get_entry_command(nl1[j]).raised, netlist |-> nl1]
    ELSE [raised |-> "none",
          netlist |-> [nl1 EXCEPT ![j].text = <<T(".ENDS"), new_name, NL>>]])))

ManipulatedLine ==
  <<T("*****"), T("SpiceEditor"), T("Manipulated"), T("this"), T("sub-circuit"), T("****"), NL>>

EndsManipulatedLine == <<T("*****"), T("ENDS"), T("SpiceEditor"), T("****"), NL>>

\* SpiceCircuit.clone(new_name=new_name): [raised, netlist]
clone(nl, new_name) ==
  With(<<Line(ManipulatedLine)>> \o nl \o <<Line(EndsManipulatedLine)>>, LAMBDA c :
  setname(c, new_name))

RECURSIVE join(_)
\* '_'.join(words)
join(words) == IF words = <<>> THEN <<>> ELSE Head(words) \o join(Tail(words))

\* the index of path in the clone registry, 0 when it is no key
registry_index(ms, path) ==
  LET hit(i) == ms[i].path = path IN FirstIndex(Len(ms), 1, hit)

Front(seq) == SubSeq(seq, 1, Len(seq) - 1)

Last(seq) == seq[Len(seq)]

\* an edit made on a copy of the registered clone and never stored
edit_clone_on_copy(st, path, component, value) ==
  With(registry_index(st.ms, path), LAMBDA k :
  With(set_model_and_value(st.ms[k].sub.netlist, component, value), LAMBDA r :
  [netlist |-> st.netlist, ms |-> st.ms, raised |-> r.raised]))

\* sub_circuit._set_model_and_value(component, value) on a registered clone
edit_clone(st, path, component, value) ==
  With(registry_index(st.ms, path), LAMBDA k :
  With(set_model_and_value(st.ms[k].sub.netlist, component, value), LAMBDA r :
  [netlist |-> st.netlist,
   ms |-> [st.ms EXCEPT ![k].sub = SpiceCircuit(r.netlist)],
   raised |-> r.raised]))

RECURSIVE editor_set_model_and_value(_, _, _, _)
\* SpiceEditor._set_model_and_value on the state st = [netlist, ms, raised];
\* component is the reference split at SUBCKT_DIVIDER
editor_set_model_and_value(lib, st, component, value) ==
  LET prefix == FirstChar(component[1][1]) IN
  IF prefix = "X" /\ Len(component) > 1
  THEN
    LET modified_path == Front(component)
        leaf == Last(component)
    IN
    IF registry_index(st.ms, modified_path) # 0
    THEN edit_clone(st, modified_path, leaf, value)
    ELSE
      With(get_subcircuit(st.netlist, TRUE, lib, modified_path), LAMBDA g :
      IF g.raised # "none" THEN [st EXCEPT !.raised = g.raised]
      ELSE
        With(name(g.sub), LAMBDA n :
        IF n.raised # "none" THEN [st EXCEPT !.raised = n.raised]
        ELSE
          With(n.name \o join(modified_path), LAMBDA new_name :
          With(clone(g.sub, new_name), LAMBDA c :
          IF c.raised # "none" THEN [st EXCEPT !.raised = c.raised]
          ELSE
            With([st EXCEPT !.ms = Append(@, [path |-> modified_path,
                                              sub |-> SpiceCircuit(c.netlist)])],
                 LAMBDA st1 :
            With(editor_set_model_and_value(lib, st1, modified_path, <<new_name>>),
                 LAMBDA st2 :
            IF st2.raised # "none" THEN st2
            ELSE edit_clone(st2, modified_path, leaf, value)))))))
  ELSE IF Len(component) > 1
  THEN [st EXCEPT !.raised = IF has_regex(prefix) THEN "ComponentNotFoundError" ELSE "none"]
  ELSE
    With(set_model_and_value(st.netlist, component[1], value), LAMBDA r :
    [netlist |-> r.netlist, ms |-> st.ms, raised |-> r.raised])

----------------------------------------------------------------------------
(* Reading values, instructions, parameters and components *)

\* SpiceCircuit.get_component_info(reference)['value'] on a netlist, for a
\* reference without divider: [raised, value]
get_component_info(nl, reference) ==
  LET prefix == FirstChar(reference[1]) IN
  IF ~has_regex(prefix) THEN [raised |-> "NotImplementedError", value |-> <<>>]
  ELSE
    With(get_line_starting_with(nl, reference), LAMBDA line_no :
    IF line_no = 0 THEN [raised |-> "ComponentNotFoundError", value |-> <<>>]
    ELSE
      With(regex_match(prefix, nl[line_no].text), LAMBDA v :
      IF v = 0 THEN [raised |-> "UnrecognizedSyntaxError", value |-> <<>>]
      ELSE [raised |-> "none", value |-> <<nl[line_no].text[v]>>]))

\* SpiceEditor.get_component_info(component)['value'], that is
\* get_component_value: [raised, value]
editor_get_component_info(nl, ms, lib, component) ==
  LET prefix == FirstChar(component[1][1]) IN
  IF prefix = "X" /\ Len(component) > 1
  THEN
    LET modified_path == Front(component)
        leaf == Last(component)
    IN
    With(registry_index(ms, modified_path), LAMBDA k :
    IF k # 0 THEN get_component_info(ms[k].sub.netlist, leaf)
    ELSE
      With(get_subcircuit(nl, TRUE, lib, <<leaf>>), LAMBDA g :
      IF g.raised # "none" THEN [raised |-> g.raised, value |-> <<>>]
      ELSE get_component_info(g.sub, leaf)))
  ELSE IF Len(component) > 1
  THEN [raised |-> "NotImplementedError", value |-> <<>>]
  ELSE get_component_info(nl, component[1])

\* the instructions of which a netlist holds one at most
UNIQUE_SIMULATION_DOT_INSTRUCTIONS == {T(".AC"), T(".DC"), T(".TRAN"), T(".NOISE"), T(".TF")}

\* a test that forgets to upper-case the directive
is_unique_instruction_cased(e) ==
  /\ ~e.ckt
  /\ FirstNonBlank(e.text) # 0
  /\ e.text[FirstNonBlank(e.text)] \in UNIQUE_SIMULATION_DOT_INSTRUCTIONS

\* _is_unique_instruction on an entry of the netlist or on a str
is_unique_instruction(e) == get_entry_command(e).cmd \in UNIQUE_SIMULATION_DOT_INSTRUCTIONS

\* instruction + END_LINE_TERM unless it ends with it
terminated(instruction) ==
  IF instruction # <<>> /\ Last(instruction) = NL THEN instruction ELSE instruction \o <<NL>>

\* list.insert(i, x) for an index counted from 0, which may be negative
list_insert(nl, i, x) ==
  LET n == Len(nl)
      k == IF i < 0 THEN (IF i + n < 0 THEN 0 ELSE i + n) ELSE (IF i > n THEN n ELSE i)
  IN SubSeq(nl, 1, k) \o <<x>> \o SubSeq(nl, k + 1, n)

\* self.netlist.index('.backanno\n'), else len(self.netlist) - 2: counted from 0
backanno_index(nl) ==
  LET hit(i) == nl[i] = Line(<<T(".backanno"), NL>>) IN
  With(FirstIndex(Len(nl), 1, hit), LAMBDA i : IF i # 0 THEN i - 1 ELSE Len(nl) - 2)

\* instruction in self.netlist
in_netlist(nl, text) == \E i \in 1..Len(nl) : nl[i] = Line(text)

\* SpiceEditor.add_instruction: [netlist, raised]
add_instruction(nl, instr) ==
  LET instruction == terminated(instr)
      c == get_line_command(instruction)
  IN
  IF c.raised # "none" THEN [netlist |-> nl, raised |-> c.raised]
  ELSE IF c.cmd # T(".PARAM") /\ ~is_unique_instruction(Line(instruction))
  THEN [netlist |-> IF in_netlist(nl, instruction) THEN nl
                    ELSE list_insert(nl, backanno_index(nl), Line(instruction)),
        raised |-> "none"]
  ELSE IF c.cmd = T(".PARAM") THEN [netlist |-> nl, raised |-> "RuntimeError"]
  ELSE
    LET stop(i) == get_entry_command(nl[i]).raised # "none" \/ is_unique_instruction(nl[i]) IN
    With(FirstIndex(Len(nl), 1, stop), LAMBDA i :
    IF i # 0 /\ get_entry_command(nl[i]).raised # "none"
    THEN [netlist |-> nl, raised |-> get_entry_command(nl[i]).raised]
    ELSE
      With(IF i = 0 THEN nl ELSE [nl EXCEPT ![i] = Line(instruction)], LAMBDA nl1 :
      [netlist |-> IF in_netlist(nl1, instruction) THEN nl1
                   ELSE list_insert(nl1, backanno_index(nl1), Line(instruction)),
       raised |-> "none"]))

\* a removal that takes out every entry equal to the instruction
remove_instruction_all(nl, instr) ==
  LET keep(e) == e # Line(terminated(instr)) IN SelectSeq(nl, keep)

\* SpiceEditor.remove_instruction: the netlist afterwards
remove_instruction(nl, instr) ==
  LET instruction == terminated(instr)
      hit(i) == nl[i] = Line(instruction)
  IN With(FirstIndex(Len(nl), 1, hit), LAMBDA i :
     IF i = 0 THEN nl ELSE SubSeq(nl, 1, i - 1) \o SubSeq(nl, i + 1, Len(nl)))

\* the directives, in upper case, whose text starts with the text of seg
StartingWith(seg) ==
  CASE seg = ".END" -> {".END", ".ENDS", ".ENDMACHINE"}
    [] seg = ".OP" -> {".OP"}
    [] seg = ".TRAN" -> {".TRAN"}
    [] OTHER -> {seg}

\* re.compile(search_pattern, re.IGNORECASE).match(text) for the patterns
\* r"\.tran.*" and the like: the text starts, at its first character, with the
\* directive of the pattern, in any case
pattern_match(search_pattern, text) ==
  /\ text # <<>>
  /\ Len(text[1]) = 1
  /\ Upper(text[1][1]) \in StartingWith(Upper(search_pattern[1]))

\* a removal that stops at the first line the pattern matches
remove_Xinstruction_first(nl, search_pattern) ==
  LET hit(i) == ~nl[i].ckt /\ pattern_match(search_pattern, nl[i].text) IN
  With(FirstIndex(Len(nl), 1, hit), LAMBDA i :
  IF i = 0 THEN nl ELSE SubSeq(nl, 1, i - 1) \o SubSeq(nl, i + 1, Len(nl)))

RECURSIVE remove_Xinstruction(_, _)
\* SpiceEditor.remove_Xinstruction: the netlist afterwards
remove_Xinstruction(nl, search_pattern) ==
  IF nl = <<>> THEN <<>>
  ELSE IF ~Head(nl).ckt /\ pattern_match(search_pattern, Head(nl).text)
  THEN remove_Xinstruction(Tail(nl), search_pattern)
  ELSE <<Head(nl)>> \o remove_Xinstruction(Tail(nl), search_pattern)

\* [\w\*\/\.\+\-\/\*\{\}\(\)\t ]* matches the whole token: a comma, a semicolon,
\* a quote or a comparison sign is no character of a value
IsValue(tok) ==
  tok # <<>> /\ \A i \in 1..Len(tok) : tok[i] \in WordSegs \cup {"1m", "{a+b}"}

\* PARAM_REGEX % param searched in text, in any case: the index of the token
\* param that stands after a blank and is followed by "=" and a value, 0 for
\* no match.  A value is one token.
param_regex(param, text) ==
  LET hit(i) == /\ UpperTok(text[i]) = UpperTok(param)
                /\ ~Glued(text[i - 1])
                /\ text[i + 1] = T("=")
                /\ IsValue(text[i + 2])
                /\ (i + 3 > Len(text) \/ text[i + 3] # T("="))
  IN FirstIndex(Len(text) - 2, 2, hit)

\* SpiceCircuit._get_line_matching('.PARAM', regx): the index of the line, 0
\* when there is none
get_line_matching_param(nl, param) ==
  LET hit(i) == /\ ~nl[i].ckt
                /\ get_line_command(nl[i].text).cmd = T(".PARAM")
                /\ param_regex(param, nl[i].text) # 0
  IN FirstIndex(Len(nl), 1, hit)

\* SpiceCircuit.get_parameter: [raised, value]
get_parameter(nl, param) ==
  With(get_line_matching_param(nl, param), LAMBDA line_no :
  IF line_no # 0
  THEN [raised |-> "none",
        value |-> nl[line_no].text[param_regex(param, nl[line_no].text) + 2]]
  ELSE [raised |-> "ParameterNotFoundError", value |-> <<>>])

\* SpiceCircuit.set_parameter: the netlist afterwards
set_parameter(nl, param, value) ==
  With(get_line_matching_param(nl, param), LAMBDA param_line :
  IF param_line # 0
  THEN With(param_regex(param, nl[param_line].text), LAMBDA k :
       [nl EXCEPT ![param_line].text =
          SubSeq(@, 1, k - 1) \o <<param, T("="), value>> \o SubSeq(@, k + 3, Len(@))])
  ELSE list_insert(nl, Len(nl) - 2,
         Line(<<T(".PARAM"), param, T("="), value, T(";"), T("Batch"), T("instruction"), NL>>)))

\* the line add_component writes for a component with ports a and b and no
\* attribute
component_line(reference) == Line(<<reference, T("a"), T("b"), <<"no", "model">>, SP, NL>>)

\* SpiceCircuit.add_component for such a component.  hint is [kind, ref]: the
\* keyword argument insert_before or insert_after and its reference, or the
\* kind "none".  [netlist, raised]
add_component(nl, reference, hint) ==
  IF hint.kind \in {"insert_before", "insert_after"}
  THEN With(get_line_starting_with(nl, hint.ref), LAMBDA line :
       IF line = 0 THEN [netlist |-> nl, raised |-> "ComponentNotFoundError"]
       ELSE [netlist |-> list_insert(nl, line - 1, component_line(reference)),
             raised |-> "none"])
  ELSE [netlist |-> list_insert(nl, backanno_index(nl), component_line(reference)),
        raised |-> "none"]

\* SpiceCircuit.get_component: [raised, value], the attribute value of the
\* Component returned
get_component(nl, reference) == get_component_info(nl, reference)

\* SpiceCircuit.get_components(): the designators listed
get_components(nl) ==
  LET listed(e) == /\ ~e.ckt
                   /\ NonWs(e.text, 1) # <<>>
                   /\ FirstChar(e.text[NonWs(e.text, 1)[1]][1]) \in REPLACE_REGXES_keys
  IN With(SelectSeq(nl, listed), LAMBDA lines :
     [i \in 1..Len(lines) |-> lines[i].text[NonWs(lines[i].text, 1)[1]]])

\* SpiceCircuit.remove_component: [netlist, raised]
remove_component(nl, designator) ==
  With(get_line_starting_with(nl, designator), LAMBDA line :
  IF line = 0 THEN [netlist |-> nl, raised |-> "ComponentNotFoundError"]
  ELSE [netlist |-> [nl EXCEPT ![line] = Line(<<>>)], raised |-> "none"])

----------------------------------------------------------------------------
(* Input files of the parsing specification *)

CommentLine == <<T("*"), T("c"), NL>>
ElementLine == <<T("R1"), T("a"), T("b"), T("1k"), NL>>
ContinuationLine == <<T("+"), T("2k"), NL>>
SubcktLine == <<T(".subckt"), T("s"), T("a"), T("b"), NL>>
EndsLine == <<T(".ends"), T("s"), NL>>
EndLine == <<T(".end"), NL>>

LineAlphabet == {CommentLine, ElementLine, ContinuationLine, SubcktLine, EndsLine, EndLine}

InputFiles == UNION {[1..n -> LineAlphabet] : n \in 1..MaxLines}

RECURSIVE FileText(_)
\* the content of a file: its lines one after the other
FileText(f) == IF f = <<>> THEN <<>> ELSE Head(f) \o FileText(Tail(f))

----------------------------------------------------------------------------
(* Netlist files of the editing specifications *)

\* two sub-blocks s and t, s instantiated twice (X1, X3) and holding an
\* instance X2 of t
HierFile ==
  << <<T("*"), T("c"), NL>>,
     <<T(".subckt"), T("s"), T("a"), T("b"), NL>>,
     <<T("R1"), T("a"), T("b"), T("1k"), NL>>,
     <<T("X2"), T("a"), T("b"), T("t"), NL>>,
     <<T(".ends"), T("s"), NL>>,
     <<T(".subckt"), T("t"), T("a"), T("b"), NL>>,
     <<T("R1"), T("a"), T("b"), T("1k"), NL>>,
     <<T(".ends"), T("t"), NL>>,
     <<T("X1"), T("a"), T("b"), T("s"), NL>>,
     <<T("X3"), T("a"), T("b"), T("s"), NL>>,
     <<T("R1"), T("a"), T("b"), T("1k"), NL>>,
     <<T(".end"), NL>> >>

\* sub-blocks s and s_X1, instantiated by X1_X2 and by X2
UnderscoreFile ==
  << <<T(".subckt"), T("s"), T("a"), T("b"), NL>>,
     <<T("R1"), T("a"), T("b"), T("1k"), NL>>,
     <<T(".ends"), T("s"), NL>>,
     <<T(".subckt"), <<"s", "X1">>, T("a"), T("b"), NL>>,
     <<T("R1"), T("a"), T("b"), T("1k"), NL>>,
     <<T(".ends"), <<"s", "X1">>, NL>>,
     <<<<"X1", "X2">>, T("a"), T("b"), T("s"), NL>>,
     <<T("X2"), T("a"), T("b"), <<"s", "X1">>, NL>>,
     <<T(".end"), NL>> >>

\* a netlist whose terminator line starts with blanks
IndentedFile ==
  << <<T(".subckt"), T("s"), T("a"), T("b"), NL>>,
     <<T("R1"), T("a"), T("b"), T("1k"), NL>>,
     <<T(".ends"), T("s"), NL>>,
     <<T("X1"), T("a"), T("b"), T("s"), NL>>,
     <<SP, T(".end"), NL>> >>

\* a flat netlist with a simulation directive and a directive written twice
FlatFile ==
  << <<T("*"), T("c"), NL>>,
     <<T("R1"), T("a"), T("b"), T("1k"), NL>>,
     <<T(".op"), NL>>,
     <<T("R2"), T("a"), T("b"), T("1k"), NL>>,
     <<T(".tran"), T("1m"), NL>>,
     <<T(".op"), NL>>,
     <<T(".backanno"), NL>>,
     <<T(".end"), NL>> >>

\* a flat netlist that defines two parameters on one line, P by a number
ParamFile ==
  << <<T("*"), T("c"), NL>>,
     <<T("R1"), T("a"), T("b"), T("1k"), NL>>,
     <<T(".param"), T("P"), T("="), T("1k"), T("q"), T("="), T("{a+b}"), NL>>,
     <<T(".backanno"), NL>>,
     <<T(".end"), NL>> >>

\* a flat netlist that defines the parameter p by a function of two arguments
ExprFile ==
  << <<T("*"), T("c"), NL>>,
     <<T("R1"), T("a"), T("b"), T("1k"), NL>>,
     <<T(".param"), T("p"), T("="), T("max(1,2)"), NL>>,
     <<T(".backanno"), NL>>,
     <<T(".end"), NL>> >>

\* a netlist that declares libraries: a comment, the lines of body, the
\* instance X1 of the sub-block model and the terminator
LibNet(body, model) ==
  << <<T("*"), T("c"), NL>> >> \o body \o
  << <<T("X1"), T("a"), T("b"), model, NL>>, <<T(".end"), NL>> >>

\* the directive that declares the library l
LibLine(l) == <<T(".lib"), T(l), NL>>

LibNames == {"l1", "l2", "l3", "l4"}

\* netlists that declare one library or two, in an order, and netlists that
\* hold a sub-block definition of their own beside the directive
LibFiles ==
  {LibNet(<<LibLine(l)>>, T("s")) : l \in LibNames}
  \cup {LibNet(<<LibLine(l), LibLine(m)>>, T("s")) : l \in LibNames, m \in LibNames}
  \cup {LibNet(<<LibLine("l3")>> \o LibS(T("1k")), T("s")),
        LibNet(LibT \o <<LibLine("l1")>>, T("s")),
        LibNet(<<LibLine("l1")>> \o LibT, T("s")),
        LibNet(LibT, T("u")),
        LibNet(<<>>, T("u"))}

----------------------------------------------------------------------------
(* Operations *)

Rec(op, arg, raised, out) == [op |-> op, arg |-> arg, raised |-> raised, out |-> out]

\* SpiceEditor(netlist_file): __init__ ends by reset_netlist
Constructed(f) ==
  \E r \in {reset_netlist(f)} :
  /\ file = f
  /\ netlist = r.netlist
  /\ modified_subcircuits = <<>>
  /\ last = Rec("__init__", <<>>, r.raised, <<>>)
  /\ nops = 0

\* the editor exists: its constructor did not raise
Alive == ~(last.op = "__init__" /\ last.raised # "none")

do_save_netlist ==
  /\ Alive
  /\ last' = Rec("save_netlist", <<>>, "none", save_text(netlist, modified_subcircuits))
  /\ UNCHANGED <<file, netlist, modified_subcircuits, nops>>

\* a reset that forgets to clear the clone registry
editor_reset_netlist_keeping(st, f) ==
  With(reset_netlist(f), LAMBDA r : [netlist |-> r.netlist, ms |-> st.ms, raised |-> r.raised])

\* SpiceEditor.reset_netlist(create_blank=False) on an editor in state st:
\* the netlist is cleared, the registry is cleared, and the lines of the file
\* are added to the netlist
editor_reset_netlist(st, f) ==
  With(add_lines(f, 1, SubSeq(st.netlist, 1, 0)), LAMBDA r :
  [netlist |-> r.netlist,
   ms |-> SubSeq(st.ms, 1, 0),
   raised |-> IF r.raised # "none" THEN r.raised
              ELSE IF r.finished THEN "none" ELSE "SyntaxError"])

do_reset_netlist ==
  /\ Alive
  /\ \E r \in {editor_reset_netlist(
                  [netlist |-> netlist, ms |-> modified_subcircuits, raised |-> "none"], file)} :
     /\ netlist' = r.netlist
     /\ modified_subcircuits' = r.ms
     /\ last' = Rec("reset_netlist", <<>>, r.raised, <<>>)
  /\ UNCHANGED <<file, nops>>

\* the editor's state as the operations take it
State == [netlist |-> netlist, ms |-> modified_subcircuits, raised |-> "none"]

\* the references, values, instructions, patterns, parameters and designators
\* the operations are called with
SetRefs ==
  { <<T("X1"), T("R1")>>, <<T("X3"), T("R1")>>, <<T("X1"), T("X2"), T("R1")>>,
    <<T("X1"), T("R9")>>, <<<<"X1", "X2">>, T("R1")>>, <<T("X2"), T("R1")>>,
    <<T("R1")>>, <<T("N1")>> }

SetValues == {T("2k"), T("5k")}

ModelRefs == { <<T("X1")>>, <<T("X1"), T("X2")>>, <<T("N1")>> }

ModelValues == {T("t")}

Instructions == { <<T(".ac"), T("1m")>>, <<T(".tran"), T("1m"), NL>>, <<T(".op")>>, <<T(".end")>> }

Patterns == {T(".tran"), T(".end"), T(".op")}

Params == {T("p"), T("q")}

ParamValues == {T("1k"), T("2k")}

References == {T("R2"), T("R9")}

Designators == {T("R1"), T("R2"), T("X1")}

Hints ==
  {[kind |-> "none", ref |-> <<>>],
   [kind |-> "insert_before", ref |-> T("R1")],
   [kind |-> "insert_after", ref |-> T("R1")],
   [kind |-> "insert_after", ref |-> T("R9")]}

Instances == { <<T("X1")>>, <<T("X9")>> }

do_set_component_value ==
  /\ Alive
  /\ nops < MaxOps
  /\ \E ref \in SetRefs, value \in SetValues :
       \E st \in {editor_set_model_and_value(file, State, ref, <<value>>)} :
       /\ netlist' = st.netlist
       /\ modified_subcircuits' = st.ms
       /\ last' = Rec("set_component_value", <<ref, value>>, st.raised, <<>>)
  /\ nops' = nops + 1
  /\ UNCHANGED file

do_set_element_model ==
  /\ Alive
  /\ nops < MaxOps
  /\ \E ref \in ModelRefs, value \in ModelValues :
       \E st \in {editor_set_model_and_value(file, State, ref, <<value>>)} :
       /\ netlist' = st.netlist
       /\ modified_subcircuits' = st.ms
       /\ last' = Rec("set_element_model", <<ref, value>>, st.raised, <<>>)
  /\ nops' = nops + 1
  /\ UNCHANGED file

do_get_component_value ==
  /\ Alive
  /\ \E ref \in SetRefs :
       \E r \in {editor_get_component_info(netlist, modified_subcircuits, file, ref)} :
       last' = Rec("get_component_value", <<ref>>, r.raised, r.value)
  /\ UNCHANGED <<file, netlist, modified_subcircuits, nops>>

do_add_instruction ==
  /\ Alive
  /\ nops < MaxOps
  /\ \E i \in Instructions :
       \E r \in {add_instruction(netlist, i)} :
       /\ netlist' = r.netlist
       /\ last' = Rec("add_instruction", <<i>>, r.raised, <<>>)
  /\ nops' = nops + 1
  /\ UNCHANGED <<file, modified_subcircuits>>

do_remove_instruction ==
  /\ Alive
  /\ nops < MaxOps
  /\ \E i \in Instructions :
       /\ netlist' = remove_instruction(netlist, i)
       /\ last' = Rec("remove_instruction", <<i>>, "none", <<>>)
  /\ nops' = nops + 1
  /\ UNCHANGED <<file, modified_subcircuits>>

do_remove_Xinstruction ==
  /\ Alive
  /\ nops < MaxOps
  /\ \E p \in Patterns :
       /\ netlist' = remove_Xinstruction(netlist, p)
       /\ last' = Rec("remove_Xinstruction", <<p>>, "none", <<>>)
  /\ nops' = nops + 1
  /\ UNCHANGED <<file, modified_subcircuits>>

do_set_parameter ==
  /\ Alive
  /\ nops < MaxOps
  /\ \E p \in Params, v \in ParamValues :
       /\ netlist' = set_parameter(netlist, p, v)
       /\ last' = Rec("set_parameter", <<p, v>>, "none", <<>>)
  /\ nops' = nops + 1
  /\ UNCHANGED <<file, modified_subcircuits>>

do_get_subcircuit ==
  /\ Alive
  /\ \E ref \in Instances :
       \E r \in {get_subcircuit(netlist, TRUE, file, ref)} :
       last' = Rec("get_subcircuit", <<ref>>, r.raised, r.sub)
  /\ UNCHANGED <<file, netlist, modified_subcircuits, nops>>

do_get_parameter ==
  /\ Alive
  /\ \E p \in Params :
       \E r \in {get_parameter(netlist, p)} :
       last' = Rec("get_parameter", <<p>>, r.raised, r.value)
  /\ UNCHANGED <<file, netlist, modified_subcircuits, nops>>

do_add_component ==
  /\ Alive
  /\ nops < MaxOps
  /\ \E c \in References, h \in Hints :
       \E r \in {add_component(netlist, c, h)} :
       /\ netlist' = r.netlist
       /\ last' = Rec("add_component", <<c, h>>, r.raised, <<>>)
  /\ nops' = nops + 1
  /\ UNCHANGED <<file, modified_subcircuits>>

do_get_component ==
  /\ Alive
  /\ \E d \in Designators :
       \E r \in {get_component(netlist, d)} :
       last' = Rec("get_component", <<d>>, r.raised, r.value)
  /\ UNCHANGED <<file, netlist, modified_subcircuits, nops>>

do_get_components ==
  /\ Alive
  /\ last' = Rec("get_components", <<>>, "none", get_components(netlist))
  /\ UNCHANGED <<file, netlist, modified_subcircuits, nops>>

do_remove_component ==
  /\ Alive
  /\ nops < MaxOps
  /\ \E d \in Designators :
       \E r \in {remove_component(netlist, d)} :
       /\ netlist' = r.netlist
       /\ last' = Rec("remove_component", <<d>>, r.raised, <<>>)
  /\ nops' = nops + 1
  /\ UNCHANGED <<file, modified_subcircuits>>

----------------------------------------------------------------------------
(* Parsing specification: every input file up to MaxLines lines *)

InitParse == \E f \in InputFiles : Constructed(f)

NextParse == do_save_netlist \/ do_reset_netlist

SpecParse == InitParse /\ [][NextParse]_vars

----------------------------------------------------------------------------
(* Hierarchical editing specification *)

InitHier == \E f \in {HierFile, UnderscoreFile, IndentedFile} : Constructed(f)

NextHier ==
  \/ do_set_component_value
  \/ do_set_element_model
  \/ do_get_component_value
  \/ do_save_netlist

SpecHier == InitHier /\ [][NextHier]_vars

----------------------------------------------------------------------------
(* Editing specification: the public editing operations *)

InitEdit == \E f \in {FlatFile, HierFile} : Constructed(f)

NextEdit ==
  \/ do_set_component_value
  \/ do_set_parameter
  \/ do_add_instruction
  \/ do_remove_instruction
  \/ do_remove_Xinstruction
  \/ do_add_component
  \/ do_remove_component
  \/ do_save_netlist

SpecEdit == InitEdit /\ [][NextEdit]_vars

----------------------------------------------------------------------------
(* Parameter specification: netlists with and without .param lines *)

InitParam == \E f \in {ParamFile, ExprFile, FlatFile} : Constructed(f)

NextParam ==
  \/ do_set_parameter
  \/ do_get_parameter
  \/ do_remove_instruction
  \/ do_save_netlist

SpecParam == InitParam /\ [][NextParam]_vars

----------------------------------------------------------------------------
(* Library specification: netlists whose sub-blocks are in libraries *)

InitLib == \E f \in LibFiles : Constructed(f)

NextLib ==
  \/ do_get_subcircuit
  \/ do_set_component_value
  \/ do_get_component_value
  \/ do_save_netlist

SpecLib == InitLib /\ [][NextLib]_vars

----------------------------------------------------------------------------
(* Component specification: adding, removing and listing components *)

InitComp == \E f \in {FlatFile, HierFile} : Constructed(f)

NextComp ==
  \/ do_add_component
  \/ do_remove_component
  \/ do_get_component
  \/ do_get_components
  \/ do_set_component_value
  \/ do_save_netlist

SpecComp == InitComp /\ [][NextComp]_vars

----------------------------------------------------------------------------
(* Reset specification: editing, hierarchical or not, and resetting *)

InitReset == \E f \in {FlatFile, HierFile} : Constructed(f)

NextReset ==
  \/ do_set_component_value
  \/ do_add_instruction
  \/ do_set_parameter
  \/ do_remove_component
  \/ do_reset_netlist
  \/ do_save_netlist

SpecReset == InitReset /\ [][NextReset]_vars

----------------------------------------------------------------------------
(* Tree specification: netlists with nested blocks, loaded and edited *)

\* files with a nested block: closed by .ends and by .end, with lines in and
\* after it, with a continuation line after the opener, with a block nested
\* in it, under a top level closed by .ends, and the hierarchical netlist
NestedFiles ==
  {<<SubcktLine, EndsLine, EndLine>>,
   <<SubcktLine, ElementLine, EndsLine, ElementLine, EndLine>>,
   <<SubcktLine, EndLine, EndLine>>,
   <<SubcktLine, ContinuationLine, EndsLine, EndLine>>,
   <<SubcktLine, SubcktLine, EndsLine, EndsLine, EndLine>>,
   <<CommentLine, SubcktLine, EndsLine, EndsLine>>,
   HierFile}

InitTree == \E f \in NestedFiles : Constructed(f)

NextTree ==
  \/ do_set_component_value
  \/ do_set_element_model
  \/ do_add_instruction
  \/ do_remove_instruction
  \/ do_add_component
  \/ do_remove_component
  \/ do_reset_netlist
  \/ do_save_netlist

SpecTree == InitTree /\ [][NextTree]_vars

----------------------------------------------------------------------------
(* Scope specification: files with the directives of a state machine *)

MachineLine == <<T(".machine"), NL>>
EndMachineLine == <<T(".endmachine"), NL>>

ScopeAlphabet == {ElementLine, SubcktLine, EndsLine, EndLine, MachineLine, EndMachineLine}

ScopeFiles == UNION {[1..n -> ScopeAlphabet] : n \in 1..MaxLines}

InitScope == \E f \in ScopeFiles : Constructed(f)

NextScope == do_save_netlist \/ do_reset_netlist

SpecScope == InitScope /\ [][NextScope]_vars

----------------------------------------------------------------------------
(* Resolution specification: netlists whose sub-block names start alike *)

SubBlock(nm, value) ==
  << <<T(".subckt"), nm, T("a"), T("b"), NL>>,
     <<T("R1"), T("a"), T("b"), value, NL>>,
     <<T(".ends"), nm, NL>> >>

InstanceLines ==
  << <<T("X1"), T("a"), T("b"), T("s"), NL>>,
     <<T("X2"), T("a"), T("b"), <<"s", "X1">>, NL>>,
     <<T(".end"), NL>> >>

\* s_X1 is defined before s, and X1 instantiates s
PrefixFile == SubBlock(<<"s", "X1">>, T("2k")) \o SubBlock(T("s"), T("1k")) \o InstanceLines

\* s is defined before s_X1
OrderedFile == SubBlock(T("s"), T("1k")) \o SubBlock(<<"s", "X1">>, T("2k")) \o InstanceLines

\* the sub-block is declared S and referenced s
CaseFile == SubBlock(T("S"), T("1k")) \o SubBlock(<<"s", "X1">>, T("2k")) \o InstanceLines

\* X1 references a sub-block that only a name starting alike is defined for
OnlyPrefixFile == SubBlock(<<"s", "X1">>, T("2k")) \o InstanceLines

InitResolve == \E f \in {PrefixFile, OrderedFile, CaseFile, OnlyPrefixFile} : Constructed(f)

NextResolve ==
  \/ do_get_subcircuit
  \/ do_set_component_value
  \/ do_get_component_value
  \/ do_save_netlist

SpecResolve == InitResolve /\ [][NextResolve]_vars

----------------------------------------------------------------------------
(* Blank specification: an editor created with create_blank=True *)

\* lines = ['* netlist generated from spicelib', '.end']: the two lines have
\* no line terminator
BlankLines ==
  << <<T("*"), T("netlist"), T("generated"), T("from"), T("spicelib")>>,
     <<T(".end")>> >>

\* SpiceEditor.reset_netlist(create_blank=True) on an editor in state st
editor_reset_blank(st) ==
  With(add_lines(BlankLines, 1, SubSeq(st.netlist, 1, 0)), LAMBDA r :
  [netlist |-> r.netlist,
   ms |-> SubSeq(st.ms, 1, 0),
   raised |-> IF r.raised # "none" THEN r.raised
              ELSE IF r.finished THEN "none" ELSE "SyntaxError"])

\* SpiceEditor(netlist_file, create_blank=True)
ConstructedBlank ==
  \E r \in {editor_reset_blank([netlist |-> <<>>, ms |-> <<>>, raised |-> "none"])} :
  /\ file = <<>>
  /\ netlist = r.netlist
  /\ modified_subcircuits = r.ms
  /\ last = Rec("__init__", <<>>, r.raised, <<>>)
  /\ nops = 0

do_reset_blank ==
  /\ Alive
  /\ \E r \in {editor_reset_blank(State)} :
     /\ netlist' = r.netlist
     /\ modified_subcircuits' = r.ms
     /\ last' = Rec("reset_netlist", <<TRUE>>, r.raised, <<>>)
  /\ UNCHANGED <<file, nops>>

InitBlank == ConstructedBlank

NextBlank ==
  \/ do_add_instruction
  \/ do_set_parameter
  \/ do_reset_blank
  \/ do_save_netlist

SpecBlank == InitBlank /\ [][NextBlank]_vars

----------------------------------------------------------------------------
(* Classifier specification: get_line_command on single lines *)

\* first tokens of the lines that are classified: elements of a supported and
\* of an unsupported kind, the continuation sign, comment signs, directives,
\* and tokens no rule is about
LeadTokens ==
  {T("R1"), T("r1"), T("X1"), T("x1"), T("N1"), T("n1"), T("+"), T("*"), T(";"), T("#"),
   T(".tran"), T(".END"), T(".subckt"), T(".param"), T("1k"), T("{a+b}"), T("$"), T("p")}

LineRests == {<<>>, <<NL>>, <<T("a"), T("b"), T("1k"), NL>>}

ClassifiedLines ==
  {pre \o <<lead>> \o rest : pre \in {<<>>, <<SP>>}, lead \in LeadTokens, rest \in LineRests}
  \cup {<<>>, <<SP>>, <<NL>>, <<SP, NL>>}

do_get_line_command ==
  /\ Alive
  /\ \E line \in ClassifiedLines \cup {file[i] : i \in 1..Len(file)} :
       \E r \in {get_line_command(line)} :
       last' = Rec("get_line_command", <<line>>, r.raised, r.cmd)
  /\ UNCHANGED <<file, netlist, modified_subcircuits, nops>>

InitClassify == \E f \in {FlatFile, HierFile} : Constructed(f)

NextClassify ==
  \/ do_get_line_command
  \/ do_reset_netlist

SpecClassify == InitClassify /\ [][NextClassify]_vars

----------------------------------------------------------------------------
(* Value codec: format_eng and scan_eng (base_editor.py)                    *)
(*                                                                          *)
(* A number is a decimal [neg, m, x], the value (-1)^neg * m * 10^x, and a  *)
(* text is a sequence of characters.  The arithmetic of the model is exact: *)
(* what it leaves out of the float arithmetic is the binary rounding of the *)
(* last bit.                                                                *)

\* largest |x| of the values m * 10^x the codec is applied to
MaxScale == 18

Num(neg, m, x) == [neg |-> neg, m |-> m, x |-> x]

DigitChars == <<"0", "1", "2", "3", "4", "5", "6", "7", "8", "9">>

IsDigit(ch) == \E d \in 1..10 : DigitChars[d] = ch

DigitVal(ch) == (CHOOSE d \in 1..10 : DigitChars[d] = ch) - 1

RECURSIVE Pow10(_)
Pow10(k) == IF k <= 0 THEN 1 ELSE 10 * Pow10(k - 1)

RECURSIVE NumDigits(_)
NumDigits(n) == IF n < 10 THEN 1 ELSE 1 + NumDigits(n \div 10)

\* str(n) of a natural number
RECURSIVE DigitsOf(_)
DigitsOf(n) ==
  IF n < 10 THEN <<DigitChars[n + 1]>>
  ELSE DigitsOf(n \div 10) \o <<DigitChars[(n % 10) + 1]>>

\* int(s) of a sequence of digits; the empty sequence counts 0
RECURSIVE IntOf(_)
IntOf(s) ==
  IF s = <<>> THEN 0
  ELSE 10 * IntOf(SubSeq(s, 1, Len(s) - 1)) + DigitVal(s[Len(s)])

\* the same number with no trailing zero in m; zero is 0 * 10^0
RECURSIVE Normal(_)
Normal(v) ==
  IF v.m = 0 THEN Num(v.neg, 0, 0)
  ELSE IF v.m % 10 = 0 THEN Normal(Num(v.neg, v.m \div 10, v.x + 1))
  ELSE v

\* v * 10^k
Scaled(v, k) == Num(v.neg, v.m, v.x + k)

\* floor(log(abs(value), 10)) of a non-zero number
Order(v) == NumDigits(v.m) - 1 + v.x

\* floor(log(abs(value), 1000))
floor_log1000(v) == Order(v) \div 3

\* the number rounded to p significant digits (ties to even)
Rounded(v, p) ==
  IF NumDigits(v.m) <= p THEN v
  ELSE LET d == NumDigits(v.m) - p
           q == v.m \div Pow10(d)
           r == v.m % Pow10(d)
           half == 5 * Pow10(d - 1)
           up == r > half \/ (r = half /\ q % 2 = 1)
       IN  Num(v.neg, IF up THEN q + 1 ELSE q, v.x + d)

Sign(v) == IF v.neg THEN <<"-">> ELSE <<>>

\* the digits of n, zero-padded on the left to width w
RECURSIVE Padded(_, _)
Padded(n, w) ==
  IF w <= 0 THEN <<>> ELSE Padded(n \div 10, w - 1) \o <<DigitChars[(n % 10) + 1]>>

\* positional notation of a number, with no trailing zero after the point
Fixed(v) ==
  LET n == Normal(v)
  IN  IF n.x >= 0 THEN Sign(v) \o DigitsOf(n.m * Pow10(n.x))
      ELSE Sign(v) \o DigitsOf(n.m \div Pow10(-n.x)) \o <<".">>
                   \o Padded(n.m % Pow10(-n.x), -n.x)

\* '{:g}'.format(value): six significant digits, trailing zeros removed;
\* positional notation for the decimal orders -4..5, which are the ones
\* format_eng formats with it
format_g(v) == Fixed(Rounded(v, 6))

\* '{:E}'.format(value): d.dddddd, E, the sign and two digits of the exponent
format_E(v) ==
  LET r == Rounded(v, 7)
      o == Order(r)
      lead == r.m \div Pow10(NumDigits(r.m) - 1)
      rest == r.m % Pow10(NumDigits(r.m) - 1)
      frac == rest * Pow10(7 - NumDigits(r.m))
      ax == IF o < 0 THEN -o ELSE o
  IN  Sign(v) \o DigitsOf(lead) \o <<".">> \o Padded(frac, 6) \o <<"E">>
      \o (IF o < 0 THEN <<"-">> ELSE <<"+">>)
      \o (IF ax < 10 THEN Padded(ax, 2) ELSE DigitsOf(ax))

\* "fpnum"[e] for e in -5..-1
fpnum(e) == <<"f", "p", "n", "u", "m">>[e + 6]

\* format_eng(value)
format_eng(value) ==
  IF value.m = 0 THEN format_g(value)
  ELSE LET e == floor_log1000(value)
       IN  IF -5 <= e /\ e < 0
             THEN format_g(Scaled(value, -3 * e)) \o <<fpnum(e)>>
           ELSE IF e = 0 THEN format_g(value)
           ELSE IF e = 1 THEN format_g(Scaled(value, -3 * e)) \o <<"k">>
           ELSE IF e = 2 THEN format_g(Scaled(value, -3 * e)) \o <<"M", "e", "g">>
           ELSE format_E(value)

\* str.strip
RECURSIVE strip(_)
strip(s) ==
  IF s # <<>> /\ s[1] = " " THEN strip(Tail(s))
  ELSE IF s # <<>> /\ s[Len(s)] = " " THEN strip(SubSeq(s, 1, Len(s) - 1))
  ELSE s

\* the x scan_eng's loop ends with: the place of the last digit, or 0
RECURSIVE last_digit(_, _)
last_digit(s, x) ==
  IF x > 0 /\ ~IsDigit(s[x]) THEN last_digit(s, x - 1) ELSE x

AllDigits(s) == s # <<>> /\ \A i \in 1..Len(s) : IsDigit(s[i])

Places(s, chars) == {i \in 1..Len(s) : s[i] \in chars}

\* float(s) of  [-] digits [. digits] [E [+|-] digits]  (what format_eng
\* writes and what a netlist value is written as); ValueError otherwise
float(s) ==
  LET neg == s # <<>> /\ s[1] = "-"
      body == IF s # <<>> /\ s[1] \in {"-", "+"} THEN Tail(s) ELSE s
      es == Places(body, {"E", "e"})
      ep == IF es = {} THEN Len(body) + 1 ELSE CHOOSE i \in es : \A j \in es : i <= j
      mant == SubSeq(body, 1, ep - 1)
      expo == SubSeq(body, ep + 1, Len(body))
      eneg == expo # <<>> /\ expo[1] = "-"
      edig == IF expo # <<>> /\ expo[1] \in {"-", "+"} THEN Tail(expo) ELSE expo
      ps == Places(mant, {"."})
      pp == IF ps = {} THEN Len(mant) + 1 ELSE CHOOSE i \in ps : \A j \in ps : i <= j
      ip == SubSeq(mant, 1, pp - 1)
      fp == SubSeq(mant, pp + 1, Len(mant))
      ok == /\ Cardinality(es) <= 1 /\ Cardinality(ps) <= 1
            /\ (es = {} \/ AllDigits(edig))
            /\ ip \o fp # <<>>
            /\ \A i \in 1..Len(ip \o fp) : IsDigit((ip \o fp)[i])
  IN  IF ~ok THEN [raised |-> "ValueError", value |-> None]
      ELSE [raised |-> "none",
            value |-> Normal(Num(neg, IntOf(ip \o fp),
                                 (IF eneg THEN -IntOf(edig) ELSE IntOf(edig)) - Len(fp)))]

\* the multipliers of scan_eng, as powers of ten
multiplier(ch) ==
  CASE ch = "f" -> -15
    [] ch = "p" -> -12
    [] ch = "n" -> -9
    [] ch \in {"u", "µ"} -> -6
    [] ch = "m" -> -3
    [] ch \in {"k", "K"} -> 3

UpperLetter(ch) ==
  CASE ch = "m" -> "M" [] ch = "e" -> "E" [] ch = "g" -> "G" [] OTHER -> ch

\* suffix.upper().startswith("MEG")
startswith_MEG(suffix) ==
  /\ Len(suffix) >= 3
  /\ <<UpperLetter(suffix[1]), UpperLetter(suffix[2]), UpperLetter(suffix[3])>> = <<"M", "E", "G">>

\* scan_eng(value)
scan_eng(value) ==
  LET s == strip(value)
      x == last_digit(s, Len(s))
      suffix == SubSeq(s, x + 1, Len(s))
      f == float(SubSeq(s, 1, x))
  IN  IF f.raised # "none" THEN f
      ELSE IF suffix # <<>> /\ suffix[1] \in {"f", "p", "n", "u", "µ", "m", "k", "K"}
        THEN [raised |-> "none", value |-> Normal(Scaled(f.value, multiplier(suffix[1])))]
      ELSE IF suffix # <<>> /\ startswith_MEG(suffix)
        THEN [raised |-> "none", value |-> Normal(Scaled(f.value, 6))]
      ELSE f

\* the significands the codec is applied to: one to seven digits
Significands == {0, 1, 2, 33, 47, 999, 1234, 123456, 999999, 1234567, 9999996}

Numbers == {Num(neg, m, x) : neg \in BOOLEAN, m \in Significands, x \in -MaxScale..MaxScale}

\* texts scan_eng is applied to that format_eng does not write
Texts == {<<"3", ".", "3", "k">>, <<"1", "0", "K">>, <<"2", "m", "e", "g">>,
          <<"5", "V">>, <<"4", ".", "7", "u", "F">>, <<" ", "1", "M", "E", "G", " ">>,
          <<"1", "e", "3">>, <<"k">>, <<>>, <<"1", ".", "2", ".", "3">>, <<"-", "2", "n">>}

\* what a behaviour of the codec holds: a number and a text
Held(value, text) == [value |-> value, text |-> text]

do_format_eng ==
  /\ last.op \in {"number", "scan_eng"}
  /\ last.raised = "none"
  /\ last' = Rec("format_eng", last.out, "none",
                 Held(last.out.value, format_eng(last.out.value)))
  /\ UNCHANGED <<file, netlist, modified_subcircuits, nops>>

do_scan_eng ==
  /\ last.op \in {"text", "format_eng"}
  /\ \E r \in {scan_eng(last.out.text)} :
       last' = Rec("scan_eng", last.out, r.raised,
                   Held(IF r.raised = "none" THEN r.value ELSE last.out.value, last.out.text))
  /\ UNCHANGED <<file, netlist, modified_subcircuits, nops>>

InitCodec ==
  /\ file = <<>>
  /\ netlist = <<>>
  /\ modified_subcircuits = <<>>
  /\ nops = 0
  /\ \/ \E v \in Numbers : last = Rec("number", Held(v, <<>>), "none", Held(v, <<>>))
     \/ \E t \in Texts : last = Rec("text", Held(Num(FALSE, 0, 0), t), "none",
                                    Held(Num(FALSE, 0, 0), t))

NextCodec ==
  \/ do_format_eng
  \/ do_scan_eng

SpecCodec == InitCodec /\ [][NextCodec]_vars

----------------------------------------------------------------------------
(* Round trip of load and save *)

RECURSIVE WellFormedFrom(_, _, _)
\* the lines of f from pos on are comments, element lines, continuation
\* lines and nested blocks each closed, and end with the terminator; depth is
\* the number of blocks open at pos.  A continuation line has a line or a
\* block before it.
WellFormedFrom(f, pos, depth) ==
  IF pos > Len(f) THEN FALSE
  ELSE LET kind == UpperTok(f[pos][1]) IN
       IF kind = T(".SUBCKT") THEN WellFormedFrom(f, pos + 1, depth + 1)
       ELSE IF kind = T(".ENDS") THEN depth > 0 /\ WellFormedFrom(f, pos + 1, depth - 1)
       ELSE IF kind = T(".END") THEN depth = 0 /\ pos = Len(f)
       ELSE IF kind = T("+") THEN pos > 1 /\ WellFormedFrom(f, pos + 1, depth)
       ELSE WellFormedFrom(f, pos + 1, depth)

WellFormed(f) == WellFormedFrom(f, 1, 0)

\* C1: for every well-formed input line sequence, the editor loads it, and
\* save_netlist with no edit in between writes exactly the input lines, in
\* order and with the same text.
C1_RoundTrip ==
  WellFormed(file) =>
    /\ Alive
    /\ last.op = "save_netlist" => last.out = FileText(file)

----------------------------------------------------------------------------
(* Editing a value in place *)

\* the first token of an entry that is a line, upper-cased; <<>> for a nested
\* block and for a line of blanks
LeadingToken(e) ==
  IF e.ckt \/ FirstNonBlank(e.text) = 0 THEN <<>>
  ELSE UpperTok(e.text[FirstNonBlank(e.text)])

\* the first top-level line whose leading token is the designator d, 0 when
\* there is none
TargetLine(nl, d) ==
  IF \E i \in 1..Len(nl) : LeadingToken(nl[i]) = UpperTok(d)
  THEN CHOOSE i \in 1..Len(nl) :
         /\ LeadingToken(nl[i]) = UpperTok(d)
         /\ \A j \in 1..(i - 1) : LeadingToken(nl[j]) # UpperTok(d)
  ELSE 0

\* the tree of the netlist file as loaded
Loaded == reset_netlist(file).netlist

IsSetCall(rec) == rec.op \in {"set_component_value", "set_element_model"}

C2_Frame ==
  (IsSetCall(last') /\ Len(last'.arg[1]) = 1) =>
    /\ modified_subcircuits' = modified_subcircuits
    /\ Len(netlist') = Len(netlist)
    /\ \E k \in {TargetLine(netlist, last'.arg[1][1])} :
         /\ \A i \in 1..Len(netlist) : i # k => netlist'[i] = netlist[i]
         /\ k # 0 =>
              /\ ~netlist'[k].ckt
              /\ Len(netlist'[k].text) = Len(netlist[k].text)
              /\ \E v \in 2..Len(netlist[k].text) :
                   \A j \in 1..Len(netlist[k].text) :
                     j # v => netlist'[k].text[j] = netlist[k].text[j]

\* C2: set_component_value / set_element_model with a divider-free designator
\* changes only the value span of the first top-level line whose leading token
\* is the designator: the rest of that line, every other entry, the number of
\* entries and the clone registry stay as they were.
C2_OnlyValueSpan == [][C2_Frame]_vars

\* the top-level R1 of the hierarchical netlist got a new value, the R1 lines
\* of the nested blocks before it were skipped
C2_Witness ==
  /\ file = HierFile
  /\ last = Rec("set_component_value", <<<<T("R1")>>, T("5k")>>, "none", <<>>)
  /\ netlist[6].text = <<T("R1"), T("a"), T("b"), T("5k"), NL>>
  /\ netlist[2] = Loaded[2]
  /\ netlist[3] = Loaded[3]

----------------------------------------------------------------------------
(* Copy-on-write editing of instances *)

\* path p is a proper, non-empty start of path q
IsPrefix(p, q) == Len(p) >= 1 /\ Len(p) < Len(q) /\ SubSeq(q, 1, Len(p)) = p

\* the nested blocks of the tree are those of the netlist as loaded
C3_Definitions ==
  /\ Len(netlist) = Len(Loaded)
  /\ \A i \in 1..Len(netlist) : (netlist[i].ckt \/ Loaded[i].ckt) => netlist[i] = Loaded[i]

C3_Step ==
  (IsSetCall(last') /\ Len(last'.arg[1]) > 1) =>
    /\ Len(netlist') = Len(netlist)
    /\ \A i \in 1..Len(netlist) :
         LeadingToken(netlist[i]) # UpperTok(last'.arg[1][1]) => netlist'[i] = netlist[i]
    /\ Len(modified_subcircuits') >= Len(modified_subcircuits)
    /\ \A k \in 1..Len(modified_subcircuits') :
         \/ /\ k <= Len(modified_subcircuits)
            /\ modified_subcircuits'[k].path = modified_subcircuits[k].path
            /\ \/ modified_subcircuits'[k] = modified_subcircuits[k]
               \/ IsPrefix(modified_subcircuits[k].path, last'.arg[1])
         \/ /\ k > Len(modified_subcircuits)
            /\ IsPrefix(modified_subcircuits'[k].path, last'.arg[1])

\* C3: through any sequence of set_component_value / set_element_model calls
\* on hierarchical paths the sub-block definitions of the netlist stay as
\* loaded, and an instance that is not on the edited path keeps its
\* instantiating line and gets no clone.
C3_OthersUntouched == []C3_Definitions /\ [][C3_Step]_vars

\* X1:R1 was edited: X1 is redirected to its clone, X3 still references s
C3_Witness ==
  /\ file = HierFile
  /\ last = Rec("set_component_value", <<<<T("X1"), T("R1")>>, T("2k")>>, "none", <<>>)
  /\ Len(modified_subcircuits) = 1
  /\ modified_subcircuits[1].path = <<T("X1")>>
  /\ netlist[4].text = <<T("X1"), T("a"), T("b"), <<"s", "X1">>, NL>>
  /\ netlist[5].text = <<T("X3"), T("a"), T("b"), T("s"), NL>>

\* the registered clone of path, as a netlist
CloneOf(path) == modified_subcircuits[registry_index(modified_subcircuits, path)].sub.netlist

\* C4: on the freshly loaded netlist, set_component_value on X1:X2:R1 succeeds
\* and registers two clones, keyed X1 and X1:X2; the X1 line references the
\* X1 clone, the X2 line of the X1 clone references the X1:X2 clone, and the
\* new value is written in the X1:X2 clone only.
C4_TwoHops ==
  (/\ file = HierFile
   /\ nops = 1
   /\ last.op = "set_component_value"
   /\ last.arg[1] = <<T("X1"), T("X2"), T("R1")>>) =>
    /\ last.raised = "none"
    /\ {modified_subcircuits[k].path : k \in 1..Len(modified_subcircuits)}
         = { <<T("X1")>>, <<T("X1"), T("X2")>> }
    /\ Len(modified_subcircuits) = 2
    /\ <<netlist[4].text[4]>> = <<name(CloneOf(<<T("X1")>>)).name>>
    /\ get_component_info(CloneOf(<<T("X1")>>), T("X2")).value
         = <<name(CloneOf(<<T("X1"), T("X2")>>)).name>>
    /\ get_component_info(CloneOf(<<T("X1"), T("X2")>>), T("R1")).value = <<last.arg[2]>>
    /\ get_component_info(CloneOf(<<T("X1")>>), T("R1")).value = <<T("1k")>>
    /\ netlist[6] = Loaded[6]

\* no two entries of the registry have the same path
C5_Distinct ==
  \A i, j \in 1..Len(modified_subcircuits) :
    i # j => modified_subcircuits[i].path # modified_subcircuits[j].path

C5_Reuse ==
  (/\ last'.op = "set_component_value"
   /\ Len(last'.arg[1]) > 1
   /\ registry_index(modified_subcircuits, Front(last'.arg[1])) # 0) =>
    /\ Len(modified_subcircuits') = Len(modified_subcircuits)
    /\ netlist' = netlist
    /\ last'.raised = "none" =>
         editor_get_component_info(netlist', modified_subcircuits', file, last'.arg[1])
           = [raised |-> "none", value |-> <<last'.arg[2]>>]

\* C5: the registry holds one clone per instantiation path at most; a
\* set_component_value on a path whose prefix is registered reuses the clone:
\* the registry does not grow, the instantiating line is not rewritten, and
\* the value read back is the one set last.
C5_OneClonePerPath == []C5_Distinct /\ [][C5_Reuse]_vars

\* X1:R1 was set twice, to 2k and then to 5k, with one clone
C5_Witness ==
  /\ file = HierFile
  /\ nops = 2
  /\ last = Rec("set_component_value", <<<<T("X1"), T("R1")>>, T("5k")>>, "none", <<>>)
  /\ Len(modified_subcircuits) = 1
  /\ get_component_info(CloneOf(<<T("X1")>>), T("R1")).value = <<T("5k")>>

\* C6: two clones registered under different instantiation paths carry
\* different sub-block names.
C6_DistinctNames ==
  \A i, j \in 1..Len(modified_subcircuits) :
    modified_subcircuits[i].path # modified_subcircuits[j].path =>
      name(modified_subcircuits[i].sub.netlist).name
        # name(modified_subcircuits[j].sub.netlist).name

\* C7: the file written by save_netlist holds each registered clone once, as
\* one block, after all other content and right before the terminator line.
C7_ClonesBeforeTerminator ==
  last.op = "save_netlist" =>
    last.out = write_lines(Front(netlist)) \o write_registry(modified_subcircuits)
                 \o Last(netlist).text

----------------------------------------------------------------------------
(* The file written after editing *)

RECURSIVE WellFormedOut(_, _, _, _)
\* the text from token i on closes every block it opens and the depth blocks
\* open at i, and a terminator line is met there or was met before (ended)
WellFormedOut(text, i, depth, ended) ==
  IF i > Len(text) THEN depth = 0 /\ ended
  ELSE IF i = 1 \/ text[i - 1] = NL
  THEN LET kind == IF text[i] = SP /\ i < Len(text) THEN UpperTok(text[i + 1])
                   ELSE UpperTok(text[i])
       IN
       IF kind = T(".SUBCKT") THEN WellFormedOut(text, i + 1, depth + 1, ended)
       ELSE IF kind = T(".ENDS") THEN depth > 0 /\ WellFormedOut(text, i + 1, depth - 1, ended)
       ELSE IF kind = T(".END") THEN depth = 0 /\ WellFormedOut(text, i + 1, depth, TRUE)
       ELSE WellFormedOut(text, i + 1, depth, ended)
  ELSE WellFormedOut(text, i + 1, depth, ended)

\* C8: after any sequence of editing operations on a loaded netlist,
\* save_netlist writes a well-formed file: every opened nested block is
\* closed and the terminator line is present.
C8_SavedWellFormed ==
  (Alive /\ last.op = "save_netlist") => WellFormedOut(last.out, 1, 0, FALSE)

----------------------------------------------------------------------------
(* Instructions *)

\* the entry is a line of a unique simulation directive
IsUniqueDirective(e) ==
  LeadingToken(e) \in {T(".AC"), T(".DC"), T(".TRAN"), T(".NOISE"), T(".TF")}

UniqueLines(nl) == {i \in 1..Len(nl) : IsUniqueDirective(nl[i])}

\* nl without its entry k
Without(nl, k) == SubSeq(nl, 1, k - 1) \o SubSeq(nl, k + 1, Len(nl))

C9_Singleton == Cardinality(UniqueLines(netlist)) <= 1

C9_Step ==
  (/\ last'.op = "add_instruction"
   /\ last'.raised = "none"
   /\ IsUniqueDirective(Line(last'.arg[1]))) =>
    IF UniqueLines(netlist) # {}
    THEN /\ Len(netlist') = Len(netlist)
         /\ \E k \in UniqueLines(netlist) :
              netlist' = [netlist EXCEPT ![k] = Line(terminated(last'.arg[1]))]
    ELSE /\ Len(netlist') = Len(netlist) + 1
         /\ \E k \in 1..Len(netlist') :
              /\ netlist'[k] = Line(terminated(last'.arg[1]))
              /\ Without(netlist', k) = netlist

\* C9: the top level holds one unique simulation directive at most, through
\* any sequence of operations; add_instruction of one replaces the line of the
\* one present, in place, and inserts one line when none is present.
C9_UniqueDirective == []C9_Singleton /\ [][C9_Step]_vars

\* .ac 1m took the place of .tran 1m in the flat netlist
C9_Witness ==
  /\ file = FlatFile
  /\ last = Rec("add_instruction", << <<T(".ac"), T("1m")>> >>, "none", <<>>)
  /\ netlist = [Loaded EXCEPT ![5] = Line(<<T(".ac"), T("1m"), NL>>)]

\* .ac 1m was inserted in the hierarchical netlist, which had no directive
C9_WitnessInsert ==
  /\ file = HierFile
  /\ last = Rec("add_instruction", << <<T(".ac"), T("1m")>> >>, "none", <<>>)
  /\ Len(netlist) = Len(Loaded) + 1
  /\ Cardinality(UniqueLines(netlist)) = 1

\* the entries of nl equal to the line of instruction
EqualLines(nl, instruction) ==
  {i \in 1..Len(nl) : nl[i] = Line(terminated(instruction))}

C10_Step ==
  last'.op = "remove_instruction" =>
    /\ modified_subcircuits' = modified_subcircuits
    /\ IF EqualLines(netlist, last'.arg[1]) = {}
       THEN netlist' = netlist
       ELSE /\ Len(netlist') = Len(netlist) - 1
            /\ \E k \in EqualLines(netlist, last'.arg[1]) :
                 /\ \A j \in EqualLines(netlist, last'.arg[1]) : k <= j
                 /\ \A i \in 1..(k - 1) : netlist'[i] = netlist[i]
                 /\ \A i \in k..Len(netlist') : netlist'[i] = netlist[i + 1]

\* C10: remove_instruction of a text that no top-level entry equals leaves the
\* tree and the clone registry as they were; otherwise the first entry equal
\* to it is removed, one entry, and the others keep their order.
C10_RemoveFirst == [][C10_Step]_vars

\* .op was removed from the flat netlist, which held it twice: the second one
\* is still there, after R2
C10_Witness ==
  /\ file = FlatFile
  /\ last = Rec("remove_instruction", << <<T(".op")>> >>, "none", <<>>)
  /\ netlist = Without(Loaded, 3)
  /\ netlist[5] = Line(<<T(".op"), NL>>)

\* .ac 1m was asked to be removed from a netlist that does not hold it
C10_WitnessAbsent ==
  /\ last = Rec("remove_instruction", << <<T(".ac"), T("1m")>> >>, "none", <<>>)
  /\ EqualLines(netlist, <<T(".ac"), T("1m")>>) = {}
  /\ netlist = Loaded

----------------------------------------------------------------------------
(* Removal by pattern *)

\* the top-level text lines of nl the pattern matches
MatchingLines(nl, pattern) ==
  {i \in 1..Len(nl) : ~nl[i].ckt /\ pattern_match(pattern, nl[i].text)}

\* the entries of nl outside the set of indices gone, in their order
RECURSIVE Remaining(_, _, _)

Remaining(nl, i, gone) ==
  IF i > Len(nl) THEN <<>>
  ELSE (IF i \in gone THEN <<>> ELSE <<nl[i]>>) \o Remaining(nl, i + 1, gone)

C11_Step ==
  last'.op = "remove_Xinstruction" =>
    /\ last'.raised = "none"
    /\ modified_subcircuits' = modified_subcircuits
    /\ Len(netlist') = Len(netlist) - Cardinality(MatchingLines(netlist, last'.arg[1]))
    /\ netlist' = Remaining(netlist, 1, MatchingLines(netlist, last'.arg[1]))
    /\ MatchingLines(netlist, last'.arg[1]) = {} => netlist' = netlist
    /\ \A i \in 1..Len(netlist) :
         netlist[i].ckt => \E j \in 1..Len(netlist') : netlist'[j] = netlist[i]

\* C11: remove_Xinstruction(pattern) deletes the top-level text lines the
\* pattern matches and nothing else: with N matching lines the tree has N
\* entries less, with none it is unchanged, and the nested blocks and the
\* other lines stay, in the order they had.
C11_RemoveMatching == [][C11_Step]_vars

\* the pattern of .op took both .op lines out of the flat netlist
C11_Witness ==
  /\ file = FlatFile
  /\ nops = 1
  /\ last = Rec("remove_Xinstruction", <<T(".op")>>, "none", <<>>)
  /\ Cardinality(MatchingLines(Loaded, T(".op"))) = 2
  /\ netlist = Without(Without(Loaded, 6), 3)

\* the pattern of .tran matched no line of the hierarchical netlist
C11_WitnessNone ==
  /\ file = HierFile
  /\ nops = 1
  /\ last = Rec("remove_Xinstruction", <<T(".tran")>>, "none", <<>>)
  /\ MatchingLines(Loaded, T(".tran")) = {}
  /\ netlist = Loaded

----------------------------------------------------------------------------
(* Parameters *)

\* the places <<line, token>> of the top level of nl where a .PARAM line
\* defines param: its name, in any case, and the sign "="
Definitions(nl, param) ==
  {d \in (1..Len(nl)) \X (1..8) :
     /\ LeadingToken(nl[d[1]]) = T(".PARAM")
     /\ d[2] + 1 <= Len(nl[d[1]].text)
     /\ UpperTok(nl[d[1]].text[d[2]]) = UpperTok(param)
     /\ nl[d[1]].text[d[2] + 1] = T("=")}

\* the value the definition at place d gives
DefinedValue(nl, d) == nl[d[1]].text[d[2] + 2]

C12_Step ==
  last'.op = "set_parameter" =>
    /\ get_parameter(netlist', last'.arg[1]) = [raised |-> "none", value |-> last'.arg[2]]
    /\ \E d \in Definitions(netlist', last'.arg[1]) :
         /\ Definitions(netlist', last'.arg[1]) = {d}
         /\ DefinedValue(netlist', d) = last'.arg[2]
    /\ IF Definitions(netlist, last'.arg[1]) # {}
       THEN /\ Len(netlist') = Len(netlist)
            /\ Definitions(netlist', last'.arg[1]) = Definitions(netlist, last'.arg[1])
            /\ \A i \in 1..Len(netlist) :
                 (\A d \in Definitions(netlist, last'.arg[1]) : d[1] # i) =>
                   netlist'[i] = netlist[i]
       ELSE /\ Len(netlist') = Len(netlist) + 1
            /\ \E k \in 1..Len(netlist') :
                 /\ LeadingToken(netlist'[k]) = T(".PARAM")
                 /\ Without(netlist', k) = netlist

\* C12: after set_parameter(p, v), get_parameter(p) returns v and the top
\* level holds one definition of p, which carries v: a .PARAM line that
\* defines p is rewritten in place, the number of entries unchanged, and when
\* there is none one .PARAM line is added.
C12_OneDefinition == [][C12_Step]_vars

----------------------------------------------------------------------------
(* Designators of a kind without pattern *)

\* the reference has no divider and no pattern is registered for its first
\* character
UnsupportedKind(ref) ==
  Len(ref) = 1 /\ FirstChar(ref[1][1]) \notin REPLACE_REGXES_keys

\* C13: set_component_value and set_element_model called with a designator
\* whose first character has no pattern in the element pattern table raise
\* the error of an unsupported kind, NotImplementedError, which is neither
\* ComponentNotFoundError nor UnrecognizedSyntaxError: the call never returns
\* normally.
C13_UnsupportedSurfaced ==
  (IsSetCall(last) /\ UnsupportedKind(last.arg[1])) => last.raised = "NotImplementedError"

----------------------------------------------------------------------------
(* Files that are not closed *)

\* the line is one of the directives that close a scope
IsClosing(line) ==
  LeadingToken(Line(line)) # <<>> /\ Prefix4IsEND(LeadingToken(Line(line)))

RECURSIVE Closes(_, _, _)
\* reading f from line pos at nesting depth, a closing directive of the top
\* level is met before the end of input
Closes(f, pos, depth) ==
  IF pos > Len(f) THEN FALSE
  ELSE IF LeadingToken(Line(f[pos])) = T(".SUBCKT") THEN Closes(f, pos + 1, depth + 1)
  ELSE IF IsClosing(f[pos]) THEN depth = 0 \/ Closes(f, pos + 1, depth - 1)
  ELSE Closes(f, pos + 1, depth)

\* the top level of f, or a nested block of it, is not closed
Unclosed(f) == ~Closes(f, 1, 0)

RECURSIVE Complete(_)
\* every nested block of the tree ends with a closing directive, and so do
\* the blocks nested in it
Complete(nl) ==
  \A i \in 1..Len(nl) :
    nl[i].ckt =>
      /\ nl[i].netlist # <<>>
      /\ ~Last(nl[i].netlist).ckt
      /\ IsClosing(Last(nl[i].netlist).text)
      /\ Complete(nl[i].netlist)

\* C14: loading a file whose top level or one of whose nested blocks is not
\* closed before the end of input fails with SyntaxError, the error of a
\* malformed file; a load that succeeds has met a closing directive at the top
\* level, and no nested block whose build was incomplete is an entry of its
\* parent.  A file that starts with a continuation line is left aside: its
\* build fails at that line.
C14_UnclosedFails ==
  last.op \in {"__init__", "reset_netlist"} =>
    /\ (Unclosed(file) /\ LeadingToken(Line(file[1])) # T("+")) =>
         last.raised = "SyntaxError"
    /\ last.raised = "none" => ~Unclosed(file)
    /\ Complete(netlist)

\* what is left of C14 when the files in which a continuation line follows a
\* nested block are set aside too
C14_ButAfterBlock ==
  (last.op \in {"__init__", "reset_netlist"} /\ last.raised # "TypeError") =>
    C14_UnclosedFails

----------------------------------------------------------------------------
(* Resolution through libraries *)

\* the library directives of the top level of nl, in declaration order
LibDirectives(nl) ==
  LET IsLib(e) == ~e.ckt /\ lib_inc_regex(e.text) # <<>> IN SelectSeq(nl, IsLib)

\* the places a sub-block is looked for after the netlist's own file: for
\* each library declared, in declaration order, each search path, in list
\* order
Locations(nl) ==
  [k \in 1..(Len(LibDirectives(nl)) * Len(LibSearchPaths)) |->
     [lib |-> lib_inc_regex(LibDirectives(nl)[((k - 1) \div Len(LibSearchPaths)) + 1].text),
      dir |-> LibSearchPaths[((k - 1) % Len(LibSearchPaths)) + 1]]]

\* the text defines the sub-block subckt_name
Defines(text, subckt_name) == text # <<>> /\ scan_lib(text, 1, subckt_name).found

\* the sub-block of the first place that defines subckt_name, <<>> when no
\* place does
FirstHit(nl, own, subckt_name) ==
  IF Defines(own, subckt_name) THEN scan_lib(own, 1, subckt_name).sub
  ELSE LET locs == Locations(nl)
           hit(k) == Defines(Disk(locs[k].dir, locs[k].lib), subckt_name)
       IN IF \E k \in 1..Len(locs) : hit(k)
          THEN LET k == CHOOSE k \in 1..Len(locs) : hit(k) /\ \A j \in 1..(k - 1) : ~hit(j)
               IN scan_lib(Disk(locs[k].dir, locs[k].lib), 1, subckt_name).sub
          ELSE <<>>

\* the sub-block the instance line of designator d references
ReferencedName(nl, d) == nl[TargetLine(nl, d)].text[match_X(nl[TargetLine(nl, d)].text)]

\* C15: get_subcircuit finds the sub-block whenever a searched place defines
\* it, and returns the one of the first place in the search order: the
\* netlist's own file, then each declared library in declaration order, each
\* looked up in the search paths in list order.
C15_FirstHit ==
  (/\ last.op = "get_subcircuit"
   /\ TargetLine(netlist, last.arg[1][1]) # 0
   /\ FirstHit(netlist, file, ReferencedName(netlist, last.arg[1][1])) # <<>>) =>
    /\ last.raised = "none"
    /\ last.out = FirstHit(netlist, file, ReferencedName(netlist, last.arg[1][1]))

\* no top-level line of nl has the designator d, or the sub-block its line
\* references is defined neither in the netlist's own file nor in a library
\* nl declares, in any directory
NowhereDefined(nl, own, d) ==
  \/ TargetLine(nl, d) = 0
  \/ /\ ~Defines(own, ReferencedName(nl, d))
     /\ \A i \in 1..Len(LibDirectives(nl)) : \A dir \in {".", "~", "d1", "d2"} :
          ~Defines(Disk(dir, lib_inc_regex(LibDirectives(nl)[i].text)), ReferencedName(nl, d))

C16_Step ==
  (last'.op = "get_subcircuit" /\ NowhereDefined(netlist, file, last'.arg[1][1])) =>
    /\ last'.raised = "ComponentNotFoundError"
    /\ netlist' = netlist
    /\ modified_subcircuits' = modified_subcircuits

\* C16: get_subcircuit on a reference whose head designator no top-level line
\* has, or whose sub-block no searched place defines, raises
\* ComponentNotFoundError and no other error, whatever the tree holds, and
\* leaves the tree and the clone registry as they were.
C16_NotFound == [][C16_Step]_vars

----------------------------------------------------------------------------
(* The life of the clone registry *)

\* the call is an edit through a hierarchical path
IsHierarchicalEdit(rec) == IsSetCall(rec) /\ Len(rec.arg[1]) > 1

C17_Fresh == last.op = "__init__" => modified_subcircuits = <<>>

C17_Step ==
  /\ (modified_subcircuits = <<>> /\ modified_subcircuits' # <<>>) => IsHierarchicalEdit(last')
  /\ last'.op = "reset_netlist" =>
       /\ last'.raised = "none"
       /\ modified_subcircuits' = <<>>
       /\ netlist' = Loaded

\* C17: the clone registry of a new editor is empty and stays empty until an
\* edit through a hierarchical path; after reset_netlist, whatever edits came
\* before, the registry is empty and the tree is the tree of the netlist file
\* as loaded.
C17_Registry == []C17_Fresh /\ [][C17_Step]_vars

\* reset_netlist was called after as many editing calls as the bound allows
C17_Witness ==
  /\ file = HierFile
  /\ last.op = "reset_netlist"
  /\ nops = MaxOps
  /\ modified_subcircuits = <<>>
  /\ netlist = Loaded

----------------------------------------------------------------------------
(* Components *)

\* the entry is a top-level line of an element: its leading token starts
\* with a character of the element pattern table
IsElement(e) ==
  LeadingToken(e) # <<>> /\ FirstChar(LeadingToken(e)[1]) \in REPLACE_REGXES_keys

\* C18: add_component of a reference that a top-level line already carries
\* replaces that element and adds no second one: the netlist files have no
\* two top-level lines of one designator, and no sequence of add_component
\* calls makes two.
C18_NoDuplicate ==
  \A i \in 1..Len(netlist) : \A j \in 1..Len(netlist) :
    (i < j /\ IsElement(netlist[i]) /\ IsElement(netlist[j])) =>
      LeadingToken(netlist[i]) # LeadingToken(netlist[j])

\* the index of the first top-level line that is a terminator, or the
\* .backanno directive that stands before it; 0 when there is none
TerminatorLine(nl) ==
  LET hit(i) == LeadingToken(nl[i]) \in {T(".END"), T(".BACKANNO")} IN
  FirstIndex(Len(nl), 1, hit)

\* the place, counted from 1, the position hint gives the new line in nl
HintedPlace(nl, hint) ==
  CASE hint.kind = "insert_before" -> TargetLine(nl, hint.ref)
    [] hint.kind = "insert_after" -> TargetLine(nl, hint.ref) + 1
    [] OTHER -> TerminatorLine(nl)

C19_Step ==
  (last'.op = "add_component" /\ last'.raised = "none") =>
    /\ Len(netlist') = Len(netlist) + 1
    /\ LeadingToken(netlist'[HintedPlace(netlist, last'.arg[2])]) = UpperTok(last'.arg[1])
    /\ Without(netlist', HintedPlace(netlist, last'.arg[2])) = netlist

\* C19: add_component puts the new line where its position hint says: right
\* before the line of ref with insert_before=ref, right after it with
\* insert_after=ref, and without hint right before the .END line (before the
\* .backanno directive when one precedes .END); the entries the netlist had
\* are unchanged and keep their order.
C19_Placement == [][C19_Step]_vars

C20_Step ==
  last'.op = "remove_component" =>
    IF TargetLine(netlist, last'.arg[1]) = 0
    THEN /\ last'.raised = "ComponentNotFoundError"
         /\ netlist' = netlist
    ELSE /\ last'.raised = "none"
         /\ get_component(netlist', last'.arg[1]).raised = "ComponentNotFoundError"
         /\ \A k \in 1..Len(get_components(netlist')) :
              UpperTok(get_components(netlist')[k]) # UpperTok(last'.arg[1])
         /\ Len(netlist') = Len(netlist)
         /\ \A i \in 1..Len(netlist) :
              i # TargetLine(netlist, last'.arg[1]) => netlist'[i] = netlist[i]

\* C20: after remove_component(ref) of a component the netlist has,
\* get_component(ref) raises ComponentNotFoundError, get_components does not
\* list ref, and every other entry is as it was; remove_component of a
\* designator no top-level line has raises ComponentNotFoundError and
\* changes nothing.
C20_Removed == [][C20_Step]_vars

\* what is left of C20 in the states without two lines of one designator
C20_ButDuplicates == [][C18_NoDuplicate => C20_Step]_vars

----------------------------------------------------------------------------
(* C21: the value codec is a near-inverse *)

\* the suffix of the power-of-1000 exponent e
SuffixOf(e) ==
  CASE e = -5 -> <<"f">> [] e = -4 -> <<"p">> [] e = -3 -> <<"n">> [] e = -2 -> <<"u">>
    [] e = -1 -> <<"m">> [] e = 0 -> <<>> [] e = 1 -> <<"k">> [] e = 2 -> <<"M", "e", "g">>

\* a non-zero value whose power-of-1000 exponent is in -5..2
InSuffixRange(v) == v.m # 0 /\ floor_log1000(v) \in -5..2

\* text is the decimal numeral of mantissa followed by suffix
Emits(text, mantissa, suffix) ==
  /\ Len(text) > Len(suffix)
  /\ SubSeq(text, Len(text) - Len(suffix) + 1, Len(text)) = suffix
  /\ float(SubSeq(text, 1, Len(text) - Len(suffix))) =
       [raised |-> "none", value |-> Normal(mantissa)]

C21_Step ==
  /\ last'.op = "format_eng" /\ InSuffixRange(last'.arg.value)
       => Emits(last'.out.text,
                Scaled(last'.arg.value, -3 * floor_log1000(last'.arg.value)),
                SuffixOf(floor_log1000(last'.arg.value)))
  /\ last'.op = "format_eng" /\ last'.arg.value = Num(FALSE, 0, 0)
       => last'.raised = "none" /\ last'.out.text = <<"0">>
  /\ last.op = "format_eng" /\ last'.op = "scan_eng" /\ InSuffixRange(last.arg.value)
       => last'.raised = "none" /\ last'.out.value = Normal(last.arg.value)

\* C21: for every non-zero value whose power-of-1000 exponent e is in -5..2
\* format_eng emits the scaled mantissa with the suffix of e and scan_eng of
\* that text is the value again; format_eng(0) is "0"
C21_NearInverse == [][C21_Step]_vars

\* the codec is a near-inverse for the values of at most six significant
\* digits: the digits '{:g}' keeps
C21_ButSixDigits ==
  [][NumDigits(Normal(last.out.value).m) <= 6 => C21_Step]_vars

\* a value of seven digits was formatted and scanned back
C21_Scanned ==
  /\ last.op = "scan_eng"
  /\ last.arg.text = <<"1", ".", "2", "3", "4", "5", "7", "M", "e", "g">>
  /\ last.out.value = Num(FALSE, 123457, 1)

----------------------------------------------------------------------------
(* C22: every line gets one classification or a SyntaxError *)

\* the leading significant character of a line: the first character that is
\* not a blank, None for a line of blanks only
LeadingChar(line) ==
  IF FirstNonBlank(line) = 0 THEN None
  ELSE T(FirstChar(line[FirstNonBlank(line)][1]))

\* the classification the character stands for, None when it stands for none
Classification(line) ==
  LET ch == LeadingChar(line)[1]
      tok == line[FirstNonBlank(line)]
  IN  IF LeadingChar(line) = None THEN None
      ELSE IF ch \in {"r", "R"} THEN T("R")
      ELSE IF ch \in {"x", "X"} THEN T("X")
      ELSE IF ch = "+" THEN T("+")
      ELSE IF ch \in {"*", ";", "#", "\n"} THEN T("*")
      ELSE IF ch = "." THEN UpperTok(tok)
      ELSE None

\* C22: get_line_command returns the classification of the line, and fails
\* with SyntaxError, and with no other error, on a line that has none; it
\* never returns without a classification
C22_Classified ==
  last.op = "get_line_command" =>
    IF Classification(last.arg[1]) # None
    THEN last.raised = "none" /\ last.out = Classification(last.arg[1])
    ELSE last.raised = "SyntaxError"

\* on the lines that have a classification get_line_command returns it
C22_ButClassifiable ==
  last.op = "get_line_command" /\ Classification(last.arg[1]) # None
    => last.raised = "none" /\ last.out = Classification(last.arg[1])

----------------------------------------------------------------------------
(* C23: continuation lines join the entry before them *)

IsContinuation(line) == LeadingToken(Line(line)) = T("+")

\* the lines of f that are not continuation lines
WithoutContinuations(f) == SelectSeq(f, LAMBDA line : ~IsContinuation(line))

RECURSIVE NoContinuationEntry(_)
\* no entry of the tree, at any depth, is a continuation line
NoContinuationEntry(nl) ==
  \A i \in 1..Len(nl) :
    IF nl[i].ckt THEN NoContinuationEntry(nl[i].netlist)
    ELSE ~IsContinuation(nl[i].text)

RECURSIVE CountEntries(_)
\* the number of text lines held in the tree, at any depth
CountEntries(nl) ==
  IF nl = <<>> THEN 0
  ELSE (IF Head(nl).ckt THEN CountEntries(Head(nl).netlist) ELSE 1) + CountEntries(Tail(nl))

\* the file has a continuation line, each with a line or a block before it,
\* its blocks are closed and its last line is the terminator: the build reads
\* every line
ContinuedFile(f) ==
  /\ \E i \in 1..Len(f) : IsContinuation(f[i])
  /\ WellFormed(f)

\* C23: a continuation line is never an entry of the tree; when an entry is
\* before it (a line, a block opener or a nested block just closed) the build
\* goes on and the text of the line is in the tree, in place, with as many
\* entries as the file has other lines; when no entry is before it the build
\* fails
C23_Continuation ==
  last.op \in {"__init__", "reset_netlist"} =>
    /\ NoContinuationEntry(netlist)
    /\ IsContinuation(file[1]) => last.raised # "none"
    /\ (ContinuedFile(file) /\ ~IsContinuation(file[1])) =>
         /\ last.raised = "none"
         /\ write_lines(netlist) = FileText(file)
         /\ CountEntries(netlist) = Len(WithoutContinuations(file))

\* what is left of C23 when the continuation line follows a line or a block
\* opener
C23_ButAfterBlock ==
  (last.op \in {"__init__", "reset_netlist"} /\ last.raised # "TypeError") =>
    C23_Continuation

----------------------------------------------------------------------------
(* C24: a nested block is framed by its opening and closing directives *)

RECURSIVE Framed(_)
\* every nested block of the tree, at any depth, has the .SUBCKT line as
\* first entry and a closing directive line as last entry, the first one met
\* in the block: the one that closed it
Framed(nl) ==
  \A i \in 1..Len(nl) :
    nl[i].ckt =>
      LET b == nl[i].netlist IN
      /\ Len(b) >= 2
      /\ ~b[1].ckt /\ LeadingToken(b[1]) = T(".SUBCKT")
      /\ ~Last(b).ckt /\ IsClosing(Last(b).text)
      /\ \A j \in 2..(Len(b) - 1) : ~b[j].ckt => ~IsClosing(b[j].text)
      /\ Framed(b)

----------------------------------------------------------------------------
(* C25: only .END and .ENDS close a scope *)

IsEndOrEnds(line) == LeadingToken(Line(line)) \in {T(".END"), T(".ENDS")}

RECURSIVE ClosedAt(_, _, _)
\* the line of f that closes the top level when .SUBCKT opens a scope and
\* only .END and .ENDS close one, read from line pos at nesting depth; 0 when
\* the input ends first
ClosedAt(f, pos, depth) ==
  IF pos > Len(f) THEN 0
  ELSE IF LeadingToken(Line(f[pos])) = T(".SUBCKT") THEN ClosedAt(f, pos + 1, depth + 1)
  ELSE IF IsEndOrEnds(f[pos])
    THEN IF depth = 0 THEN pos ELSE ClosedAt(f, pos + 1, depth - 1)
  ELSE ClosedAt(f, pos + 1, depth)

RECURSIVE ClosedByEnd(_)
\* every nested block of the tree ends with a .END or .ENDS line
ClosedByEnd(nl) ==
  \A i \in 1..Len(nl) :
    nl[i].ckt =>
      /\ nl[i].netlist # <<>>
      /\ ~Last(nl[i].netlist).ckt
      /\ IsEndOrEnds(Last(nl[i].netlist).text)
      /\ ClosedByEnd(nl[i].netlist)

\* C25: the build of a file ends at the .END or .ENDS line that closes its top
\* level and at no other directive: it succeeds when there is such a line, the
\* tree then holds every line up to it, .ENDMACHINE lines among them, and each
\* nested block of the tree was closed by .END or .ENDS
C25_OnlyEndCloses ==
  last.op \in {"__init__", "reset_netlist"} =>
    /\ last.raised = "none" <=> ClosedAt(file, 1, 0) # 0
    /\ last.raised = "none" =>
         /\ write_lines(netlist) = FileText(SubSeq(file, 1, ClosedAt(file, 1, 0)))
         /\ ClosedByEnd(netlist)

\* what is left of C25 for the files that have no .ENDMACHINE line
C25_ButEndmachine ==
  (\A i \in 1..Len(file) : file[i] # EndMachineLine) => C25_OnlyEndCloses

----------------------------------------------------------------------------
(* C26: resolution by name takes the sub-block of the equal name *)

\* the name the line declares, <<>> when it is no .SUBCKT line
DeclaredName(text) == IF subckt_regex(text) = 0 THEN <<>> ELSE text[subckt_regex(text)]

\* the first line of f that declares a sub-block of the name nm, compared
\* case-insensitively; 0 when no line does
DeclaredAt(f, nm) ==
  LET hit(i) == DeclaredName(f[i]) # <<>> /\ UpperTok(DeclaredName(f[i])) = UpperTok(nm)
  IN  FirstIndex(Len(f), 1, hit)

\* the sub-block of f that starts at line k
BlockAt(f, k) == add_lines(f, k + 1, <<Line(f[k])>>).netlist

\* C26: when the file defines a sub-block whose declared name equals the name
\* the instance references, compared case-insensitively, get_subcircuit
\* returns that sub-block, also when a sub-block whose name starts with the
\* referenced name is defined earlier in the file
C26_EqualName ==
  (/\ last.op = "get_subcircuit"
   /\ TargetLine(netlist, last.arg[1][1]) # 0
   /\ DeclaredAt(file, ReferencedName(netlist, last.arg[1][1])) # 0) =>
    /\ last.raised = "none"
    /\ last.out = BlockAt(file, DeclaredAt(file, ReferencedName(netlist, last.arg[1][1])))

\* what is left of C26 when the sub-block of the equal name is the first one
\* of the file whose name starts with the referenced name
C26_ButPrefix ==
  (/\ last.op = "get_subcircuit"
   /\ TargetLine(netlist, last.arg[1][1]) # 0
   /\ \A i \in 1..Len(file) :
        reg_subckt(ReferencedName(netlist, last.arg[1][1]), file[i]) =>
          DeclaredAt(file, ReferencedName(netlist, last.arg[1][1])) \in 1..i) =>
    C26_EqualName

----------------------------------------------------------------------------
(* C27: a failed edit changes nothing *)

\* the step is a call of set_component_value or set_element_model that raised
\* ComponentNotFoundError or UnrecognizedSyntaxError
FailedEdit ==
  /\ nops' = nops + 1
  /\ IsSetCall(last')
  /\ last'.raised \in {"ComponentNotFoundError", "UnrecognizedSyntaxError"}

\* C27: a set_component_value or set_element_model call that raises
\* ComponentNotFoundError or UnrecognizedSyntaxError leaves the tree and the
\* clone registry as they were before the call, also when the path is
\* hierarchical and the leaf designator is the part that fails
C27_FailedEditFrame ==
  [][FailedEdit => netlist' = netlist /\ modified_subcircuits' = modified_subcircuits]_vars

\* what is left of C27 for the calls that make no clone: a reference with no
\* divider, or a path whose clone is registered already
C27_ButNewClone ==
  [][(FailedEdit /\ (Len(last'.arg[1]) = 1
                     \/ registry_index(modified_subcircuits, Front(last'.arg[1])) # 0))
       => netlist' = netlist /\ modified_subcircuits' = modified_subcircuits]_vars

----------------------------------------------------------------------------
(* C28: hierarchical edits do not disable one another *)

RECURSIVE ResolvesIn(_, _, _)
\* the path names an element of the netlist f: each designator but the last
\* is an instance line of the scope reached so far, whose sub-block f defines,
\* and the last is a line of the scope reached
ResolvesIn(f, nl, path) ==
  /\ TargetLine(nl, path[1]) # 0
  /\ Len(path) > 1 =>
       /\ match_X(nl[TargetLine(nl, path[1])].text) # 0
       /\ DeclaredAt(f, ReferencedName(nl, path[1])) # 0
       /\ ResolvesIn(f, BlockAt(f, DeclaredAt(f, ReferencedName(nl, path[1]))), Tail(path))

\* a hierarchical path that resolves on the netlist as loaded
ResolvesFresh(path) == Len(path) > 1 /\ ResolvesIn(file, Loaded, path)

\* the value of the leaf of path in the clone registered for the instance
InPlace(ms, path, value) ==
  /\ registry_index(ms, Front(path)) # 0
  /\ get_component_info(ms[registry_index(ms, Front(path))].sub.netlist, Last(path))
       = [raised |-> "none", value |-> <<value>>]

\* the first two calls of a behaviour are set_component_value on paths P and Q
\* that resolve on the netlist as loaded
TwoEdits ==
  /\ nops = 1 /\ nops' = 2
  /\ last.op = "set_component_value" /\ last'.op = "set_component_value"
  /\ ResolvesFresh(last.arg[1]) /\ ResolvesFresh(last'.arg[1])

C28_Step ==
  TwoEdits =>
    /\ last.raised = "none"
    /\ last'.raised = "none"
    /\ InPlace(modified_subcircuits', last'.arg[1], last'.arg[2])
    /\ last.arg[1] # last'.arg[1] => InPlace(modified_subcircuits', last.arg[1], last.arg[2])

\* C28: when two hierarchical paths P and Q both resolve on the netlist as
\* loaded, set_component_value on P and then on Q both succeed, in either
\* order, and afterwards both values are in place
C28_BothEdits == [][C28_Step]_vars

\* what is left of C28 for the paths of one instance and one leaf
C28_ButTwoHops ==
  [][(Len(last.arg) = 2 /\ Len(last'.arg) = 2
      /\ Len(last.arg[1]) = 2 /\ Len(last'.arg[1]) = 2) => C28_Step]_vars

----------------------------------------------------------------------------
(* C29: reading a value through a hierarchical path *)

\* the value of the R element `leaf` in the sub-block a path resolves to on
\* the netlist as loaded
RECURSIVE SharedValue(_, _, _)
SharedValue(f, nl, path) ==
  IF Len(path) = 1 THEN get_component_info(nl, path[1]).value
  ELSE SharedValue(f, BlockAt(f, DeclaredAt(f, ReferencedName(nl, path[1]))), Tail(path))

\* the path was never edited: no clone is registered for its instance
NeverEdited(path) == registry_index(modified_subcircuits, Front(path)) = 0

C29_Step ==
  /\ (last'.op = "get_component_value" /\ ResolvesFresh(last'.arg[1])
      /\ NeverEdited(last'.arg[1]) /\ modified_subcircuits = <<>>)
       => /\ last'.raised = "none"
          /\ last'.out = SharedValue(file, Loaded, last'.arg[1])
  /\ (last.op = "set_component_value" /\ last.raised = "none"
      /\ last'.op = "get_component_value" /\ last'.arg[1] = last.arg[1]
      /\ ResolvesFresh(last.arg[1]))
       => /\ last'.raised = "none"
          /\ last'.out = <<last.arg[2]>>

\* C29: get_component_value on a hierarchical path that resolves returns the
\* value of the leaf in the shared sub-block definition while no edit was
\* made, and the value set last through set_component_value on that path
\* right after such a call
C29_ReadThroughPath == [][C29_Step]_vars

\* what is left of C29 for the paths that were edited
C29_ButUnedited ==
  [][(last.op = "set_component_value" /\ last.raised = "none"
      /\ last'.op = "get_component_value" /\ last'.arg[1] = last.arg[1]
      /\ ResolvesFresh(last.arg[1]))
       => /\ last'.raised = "none"
          /\ last'.out = <<last.arg[2]>>]_vars

----------------------------------------------------------------------------
(* C30: a blank netlist and what is saved of it *)

RECURSIVE SplitLines(_, _)
\* text.splitlines(): the lines of a text, each without its terminator; cur is
\* the line read so far
SplitLines(text, cur) ==
  IF text = <<>> THEN (IF cur = <<>> THEN <<>> ELSE <<cur>>)
  ELSE IF Head(text) = NL THEN <<cur>> \o SplitLines(Tail(text), <<>>)
  ELSE SplitLines(Tail(text), Append(cur, Head(text)))

\* the text of an entry without its line terminator
Unterminated(text) ==
  IF text # <<>> /\ Last(text) = NL THEN Front(text) ELSE text

\* the tree of a blank netlist: a comment line and the terminator line
IsBlankTree(nl) ==
  /\ Len(nl) = 2
  /\ ~nl[1].ckt /\ get_line_command(nl[1].text).cmd = T("*")
  /\ ~nl[2].ckt /\ LeadingToken(nl[2]) = T(".END")

\* C30: right after reset_netlist(create_blank=True) the tree is a comment
\* line and the terminator line and the clone registry is empty; save_netlist
\* on a blank netlist, edited by add_instruction and set_parameter or not,
\* writes each entry as a line of its own, the terminator as last line
C30_BlankSaved ==
  /\ last.op \in {"__init__", "reset_netlist"} =>
       IsBlankTree(netlist) /\ modified_subcircuits = <<>>
  /\ last.op = "save_netlist" =>
       /\ SplitLines(last.out, <<>>) = [i \in 1..Len(netlist) |-> Unterminated(netlist[i].text)]
       /\ LeadingToken(Line(Last(SplitLines(last.out, <<>>)))) = T(".END")

\* what is left of C30 when nothing is saved: the blank tree
C30_ButSaved ==
  last.op \in {"__init__", "reset_netlist"} =>
    IsBlankTree(netlist) /\ modified_subcircuits = <<>>

====
